---- MODULE Spec2Model ----
(***************************************************************************)
(* Tier resolution of the tournament leaderboard scripts.                  *)
(*                                                                         *)
(* The module models scripts/pull-wins-tier-from-logs-post22m-lookback.js  *)
(* (and its sample70 twin): the word-level tier inference engine           *)
(* (inferTierFlexPair, inferTierNearestUnambiguous), the backward chunked  *)
(* log scan (findTierByLookback) and the cached run (loadTierCache, main). *)
(* It also models the three versions of the match extraction script, which *)
(* join winner-hint logs to match logs (extract-matches-from-topic0.js,    *)
(* extract-matches-from-topic0.updated.js, debug-profile-logs.js), the     *)
(* older tier scanners (v2, v3-scanfloor, flexpair), the win pager, the    *)
(* word extraction, mapWithConcurrency of pull-wins-and-tier-from-chain.js,*)
(* the update-all pipeline and the profile backfill; each has its own      *)
(* specification over the shared variables.                                *)
(*                                                                         *)
(* A 32-byte word is modelled by the unsigned integer it encodes: two      *)
(* canonical lowercase hex words are equal exactly when their values are.  *)
(* Indexes are 1-based here and 0-based in the source; all distances are   *)
(* unchanged by the shift.                                                 *)
(***************************************************************************)
EXTENDS Integers, Sequences, FiniteSets, TLC

(***************************************************************************)
(* Bounds of the model                                                     *)
(***************************************************************************)
\* longest item list an engine input is built from
MaxItems == 5
\* a word that is not a small integer (a hash, an address)
Filler == 10001
\* the chain holds blocks 0..MaxBlock
MaxBlock == 3

\* JS null / "no result"
Null == -1

Min(a, b) == IF a <= b THEN a ELSE b
Max(a, b) == IF a >= b THEN a ELSE b
Abs(a) == IF a >= 0 THEN a ELSE 0 - a

(***************************************************************************)
(* Word helpers                                                            *)
(***************************************************************************)
\* wordToSmallInt: the word's value when it is in 0..10000, else null
wordToSmallInt(hexWord) == IF hexWord < 0 \/ hexWord > 10000 THEN Null ELSE hexWord

\* hex32FromU256: the canonical word of an identifier is the word of its value
hex32FromU256(n) == n

\* the positions of tidWord in words, ascending (the tidIdxs loop)
tidIdxsOf(words, tidWord) == { i \in 1..Len(words) : words[i] = tidWord }

\* the k-th smallest element of a finite set of integers
RECURSIVE SortedSeq(_)
SortedSeq(S) ==
    IF S = {} THEN << >>
    ELSE LET m == CHOOSE x \in S : \A y \in S : x <= y
         IN << m >> \o SortedSeq(S \ {m})

(***************************************************************************)
(* inferTierFlexPair                                                       *)
(***************************************************************************)
WINDOW == 40
SPAN == 14
MAX_DRIFT == 4

\* let best = null
NoBest == [tier |-> Null, score |-> Null, min |-> Null, max |-> Null,
           minIdx |-> Null, maxIdx |-> Null, tidIdx |-> Null]

\* mutant: the drift test is dropped
pairAccepted_noDrift(min, max) ==
    /\ (max = 10 \/ max = 20)
    /\ ~(min > max)

\* the three `continue` tests of the inner loop
pairAccepted(min, max) ==
    /\ (max = 10 \/ max = 20)
    /\ ~(min > max)
    /\ ~(max - min > MAX_DRIFT)

\* mutant: a later pair of equal score replaces the kept one
takesOver_orEqual(best, score) == best = NoBest \/ score >= best.score

\* if (!best || score > best.score)
takesOver(best, score) == best = NoBest \/ score > best.score

\* the score of the pair (minIdx, maxIdx) seen from tidIdx
pairScore(tidIdx, minIdx, maxIdx, min, max) ==
    LET distToTid == Min(Abs(minIdx - tidIdx), Abs(maxIdx - tidIdx))
        exactBonus == IF min = max THEN 25 ELSE 0
        spanBonus == SPAN - (maxIdx - minIdx)
    IN 10000 - distToTid * 80 + exactBonus + spanBonus

\* the loop over j (max candidates after the min candidate at aIdx)
RECURSIVE flexLoopJ(_, _, _, _, _, _)
flexLoopJ(words, tidIdx, end, aIdx, j, best) ==
    IF j > Min(end, aIdx + SPAN) THEN best
    ELSE LET min == wordToSmallInt(words[aIdx])
             max == wordToSmallInt(words[j])
         IN IF ~pairAccepted(min, max)
            THEN flexLoopJ(words, tidIdx, end, aIdx, j + 1, best)
            ELSE LET score == pairScore(tidIdx, aIdx, j, min, max)
                     cand == [tier |-> max, score |-> score, min |-> min, max |-> max,
                              minIdx |-> aIdx, maxIdx |-> j, tidIdx |-> tidIdx]
                 IN flexLoopJ(words, tidIdx, end, aIdx, j + 1,
                              IF takesOver(best, score) THEN cand ELSE best)

\* `ints`: the indexes of the window whose word is a small integer in 0..30
intsOf(words, start, end) ==
    { i \in start..end : LET v == wordToSmallInt(words[i])
                         IN ~(v = Null \/ v < 0 \/ v > 30) }

\* the loop over the min candidates `ints` of one window, in index order
RECURSIVE flexLoopA(_, _, _, _, _)
flexLoopA(words, tidIdx, end, ints, best) ==
    IF ints = << >> THEN best
    ELSE flexLoopA(words, tidIdx, end, Tail(ints),
                   flexLoopJ(words, tidIdx, end, Head(ints), Head(ints) + 1, best))

\* the loop over the identifier occurrences, in order
RECURSIVE flexLoopT(_, _, _)
flexLoopT(words, tidIdxs, best) ==
    IF tidIdxs = << >> THEN best
    ELSE LET tidIdx == Head(tidIdxs)
             start == Max(1, tidIdx - WINDOW)
             end == Min(Len(words), tidIdx + WINDOW)
         IN flexLoopT(words, Tail(tidIdxs), flexLoopA(words, tidIdx, end,
                                 SortedSeq(intsOf(words, start, end)), best))

\* the record `best` at the end of inferTierFlexPair (NoBest when none)
flexBestOf(words, tidWord) ==
    flexLoopT(words, SortedSeq(tidIdxsOf(words, tidWord)), NoBest)

\* inferTierFlexPair: best ? best.tier : null
inferTierFlexPair(words, tidWord) == flexBestOf(words, tidWord).tier

(***************************************************************************)
(* inferTierNearestUnambiguous                                             *)
(***************************************************************************)
\* mutant: an ambiguous window is guessed to be the higher tier
nearestTarget_guess(seen10, seen20) ==
    IF seen20 THEN 20 ELSE IF seen10 THEN 10 ELSE Null

\* the target of one window: null when both or none of 10 / 20 were seen
nearestTarget(seen10, seen20) ==
    IF seen10 /\ seen20 THEN Null
    ELSE IF seen10 THEN 10 ELSE IF seen20 THEN 20 ELSE Null

RECURSIVE nearestLoopT(_, _)
nearestLoopT(words, tidIdxs) ==
    IF tidIdxs = << >> THEN Null
    ELSE LET tidIdx == Head(tidIdxs)
             start == Max(1, tidIdx - WINDOW)
             end == Min(Len(words), tidIdx + WINDOW)
             seen10 == \E i \in start..end : wordToSmallInt(words[i]) = 10
             seen20 == \E i \in start..end : wordToSmallInt(words[i]) = 20
             target == nearestTarget(seen10, seen20)
         IN IF target = Null THEN nearestLoopT(words, Tail(tidIdxs))
            ELSE IF \E i \in start..end : wordToSmallInt(words[i]) = target
                 THEN target
                 ELSE nearestLoopT(words, Tail(tidIdxs))

inferTierNearestUnambiguous(words, tidWord) ==
    nearestLoopT(words, SortedSeq(tidIdxsOf(words, tidWord)))

(***************************************************************************)
(* The engine as findTierByLookback runs it on one log                     *)
(***************************************************************************)
\* mutant: the fallback is consulted for every log and wins when it answers
evalLog_always(words, tidWord) ==
    LET flex == inferTierFlexPair(words, tidWord)
        near == inferTierNearestUnambiguous(words, tidWord)
    IN [flex |-> flex, consulted |-> TRUE, near |-> near,
        tier |-> IF near # Null THEN near ELSE flex]

\* tier = inferTierFlexPair(..); if (tier !== 10 && tier !== 20) tier = inferTierNearest..
evalLog(words, tidWord) ==
    LET flex == inferTierFlexPair(words, tidWord)
        consulted == flex # 10 /\ flex # 20
        near == IF consulted THEN inferTierNearestUnambiguous(words, tidWord) ELSE Null
    IN [flex |-> flex, consulted |-> consulted, near |-> near,
        tier |-> IF consulted THEN near ELSE flex]

NoEval == [flex |-> Null, consulted |-> FALSE, near |-> Null, tier |-> Null]

(***************************************************************************)
(* State                                                                   *)
(***************************************************************************)
VARIABLES
    eWords,     \* engine input: the words of one log
    eTid,       \* engine input: the identifier's word
    ePc,        \* "input" before the engine ran on eWords, "done" after
    eBest,      \* `best` of inferTierFlexPair on the input
    eRes,       \* what evalLog returned on the input
    cfg,        \* CFG: LOOKBACK_BLOCKS, LOG_CHUNK_BLOCKS, START_BLOCK, USE_CACHE
    chain,      \* the diamond's logs: block -> words of its log (<< >>: none)
    rawWins,    \* what the subgraph serves, ordered by timestamp
    file,       \* the cache file CFG.CACHE_FILE
    file0,      \* the cache file as it was when the run started
    out,        \* the output file CFG.OUT_JSON
    pc,         \* where main() stands
    cache,      \* main's `cache.byTournamentId`
    wins,       \* main's `wins`
    tids,       \* main's `tids`
    tidI,       \* main's loop index i (1-based)
    toBlock,    \* findTierByLookback's loop variable
    scanRes,    \* identifier -> what findTierByLookback returned in this run
    calls,      \* the provider.getLogs calls issued, in order
    evals,      \* the logs visited by findTierByLookback, in order
    hits,       \* the identifiers skipped as cache hits
    jScript,    \* which match extraction script runs
    jHints,     \* the winner-hint logs of the scanned range, in chain order
    jMatches,   \* the match logs of the scanned range, in chain order
    jPc,        \* where the script's main() stands
    jK,         \* the next log of the current pass (1-based)
    jIdx,       \* the join index built by pass 1
    jOut,       \* the match records pushed so far
    oScript,    \* which of the older tier scanners runs
    oCfg,       \* its constants and the identifier's anchor block
    oChain,     \* the diamond's logs it reads: block -> data words (<< >>: none)
    oPc,        \* where the older scanner stands
    oPass,      \* the pass of the scan (1: fast or only, 2: slow)
    oStart,     \* the loop variable `start` of the chunk loop
    oCalls,     \* the provider.getLogs calls of the older scanner, in order
    oFound,     \* `found` of the older scanner
    oEntry,     \* the cache entry the older scanner wrote for the identifier
    pgScript,   \* which script's win pager runs
    pgCfg,      \* the pager's page size `first` and, in the older scripts, MAX_PAGES
    pgTotal,    \* how many wins the subgraph holds
    pgPage,     \* the number of the next page (skip / first)
    pgAll,      \* the wins collected so far
    pgReqs,     \* the page requests answered, in order
    pgPc,       \* where the pager stands
    wFn,        \* which word extraction function is applied
    wTopics,    \* log.topics: a list of hex strings
    wData,      \* log.data: a hex string (<< >>: null)
    wPc,        \* "input" before the function ran, "done" after
    wOut,       \* the words the function returned
    mcN,        \* items.length
    mcConc,     \* the `concurrency` argument
    mcIdx,      \* the shared counter idx
    mcRun,      \* the runners: what each one waits for
    mcHanded,   \* item -> how many times the worker was called with it
    mcFlight,   \* the worker invocations in flight: item and provider calls made
    mcResults,  \* the items whose result was stored
    mcPc,       \* "running" until Promise.all resolved, then "returned"
    upCfg,      \* the options main passes to runWithRetry
    upStep,     \* the pipeline step main is at (1-based)
    upAttempt,  \* runWithRetry's loop variable i
    upLog,      \* the child processes that exited: step, attempt, status
    upPc,       \* where update-all stands
    upExit,     \* the status update-all exited with (Null: none yet)
    bfCfg,      \* CHUNK and the latest block of the chain
    bfCache,    \* the cache file: cursor (Null: none) and finished
    bfCursor,   \* main's `cursor`
    bfMissing,  \* missing.size: wallets still without a name
    bfReqs,     \* the provider.getLogs ranges issued since the scan started
    bfFirst,    \* the block at which the backward scan started (Null: not yet)
    bfRun,      \* the number of the current run of the script
    bfPc        \* where the backfill's main() stands

engineVars == << eWords, eTid, ePc, eBest, eRes >>
runVars == << cfg, chain, rawWins, file, file0, out, pc, cache, wins, tids, tidI,
              toBlock, scanRes, calls, evals, hits >>
joinVars == << jScript, jHints, jMatches, jPc, jK, jIdx, jOut >>
oldVars == << oScript, oCfg, oChain, oPc, oPass, oStart, oCalls, oFound, oEntry >>
pagerVars == << pgScript, pgCfg, pgTotal, pgPage, pgAll, pgReqs, pgPc >>
wordVars == << wFn, wTopics, wData, wPc, wOut >>
mapVars == << mcN, mcConc, mcIdx, mcRun, mcHanded, mcFlight, mcResults, mcPc >>
pipeVars == << upCfg, upStep, upAttempt, upLog, upPc, upExit >>
backfillVars == << bfCfg, bfCache, bfCursor, bfMissing, bfReqs, bfFirst, bfRun, bfPc >>
\* the state of the scripts other than the post22m resolver and the extractors
auxVars == << oldVars, pagerVars, wordVars, mapVars, pipeVars, backfillVars >>
vars == << eWords, eTid, ePc, eBest, eRes, cfg, chain, rawWins, file, file0, out,
           pc, cache, wins, tids, tidI, toBlock, scanRes, calls, evals, hits,
           jScript, jHints, jMatches, jPc, jK, jIdx, jOut,
           oScript, oCfg, oChain, oPc, oPass, oStart, oCalls, oFound, oEntry,
           pgScript, pgCfg, pgTotal, pgPage, pgAll, pgReqs, pgPc,
           wFn, wTopics, wData, wPc, wOut,
           mcN, mcConc, mcIdx, mcRun, mcHanded, mcFlight, mcResults, mcPc,
           upCfg, upStep, upAttempt, upLog, upPc, upExit,
           bfCfg, bfCache, bfCursor, bfMissing, bfReqs, bfFirst, bfRun, bfPc >>

\* `found` and the cache entry of an older scanner before it has any
NoFound == [kind |-> "none", tier |-> Null, minLevel |-> Null, maxLevel |-> Null,
            block |-> Null]

\* the state of the older scanners while none of them runs
OldIdle ==
    /\ oScript = "none"
    /\ oCfg = << >>
    /\ oChain = << >>
    /\ oPc = "idle"
    /\ oPass = 0
    /\ oStart = 0
    /\ oCalls = << >>
    /\ oFound = NoFound
    /\ oEntry = NoFound

\* the state of the win pager while it is not exercised
PagerIdle ==
    /\ pgScript = "none"
    /\ pgCfg = << >>
    /\ pgTotal = 0
    /\ pgPage = 0
    /\ pgAll = << >>
    /\ pgReqs = << >>
    /\ pgPc = "idle"

\* the state of the word extraction while it is not exercised
WordsIdle ==
    /\ wFn = "none"
    /\ wTopics = << >>
    /\ wData = << >>
    /\ wPc = "idle"
    /\ wOut = << >>

\* the state of mapWithConcurrency while it is not exercised
MapIdle ==
    /\ mcN = 0
    /\ mcConc = 0
    /\ mcIdx = 0
    /\ mcRun = << >>
    /\ mcHanded = << >>
    /\ mcFlight = {}
    /\ mcResults = {}
    /\ mcPc = "idle"

\* the state of the update-all pipeline while it is not exercised
PipeIdle ==
    /\ upCfg = << >>
    /\ upStep = 0
    /\ upAttempt = 0
    /\ upLog = << >>
    /\ upPc = "idle"
    /\ upExit = Null

\* the state of the profile backfill while it is not exercised
BackfillIdle ==
    /\ bfCfg = << >>
    /\ bfCache = << >>
    /\ bfCursor = 0
    /\ bfMissing = 0
    /\ bfReqs = << >>
    /\ bfFirst = Null
    /\ bfRun = 0
    /\ bfPc = "idle"

AuxIdle ==
    /\ OldIdle
    /\ PagerIdle
    /\ WordsIdle
    /\ MapIdle
    /\ PipeIdle
    /\ BackfillIdle

(***************************************************************************)
(* Cache records                                                           *)
(***************************************************************************)
DECODE_VERSION == "post22m-v1-flexpair"

\* a string field that is null or missing
NullStr == "(null)"

\* the identifiers of the model
AllTids == {500, 501}

\* a value of the cache map: shape "absent" (no key), "number" (a bare tier
\* integer, held in tier) or "object"
Entry(shape, tier, matchedBlock, anchorWinBlock, method, error, decodeVersion, at) ==
    [shape |-> shape, tier |-> tier, matchedBlock |-> matchedBlock,
     anchorWinBlock |-> anchorWinBlock, method |-> method, error |-> error,
     decodeVersion |-> decodeVersion, resolvedAtUtc |-> at]

Absent == Entry("absent", Null, Null, Null, NullStr, NullStr, NullStr, NullStr)

\* cached?.tier, entry?.tier: a number and a missing key have no tier
tierOf(e) == IF e.shape = "object" THEN e.tier ELSE Null

\* cached?.decodeVersion
versionOf(e) == IF e.shape = "object" THEN e.decodeVersion ELSE NullStr

EmptyMap == [t \in AllTids |-> Absent]

\* mutant: a migrated entry is stamped with the current version
migrateEntry_current(v) ==
    IF v.shape = "number" /\ (v.tier = 10 \/ v.tier = 20)
    THEN Entry("object", v.tier, Null, Null, "migrated/flat-number", NullStr,
               DECODE_VERSION, "now")
    ELSE IF v.shape = "object"
    THEN Entry("object",
               IF v.tier = 10 \/ v.tier = 20 THEN v.tier ELSE Null,
               v.matchedBlock,
               v.anchorWinBlock,
               IF v.method # NullStr /\ v.method # "" THEN v.method ELSE "migrated/object",
               IF v.error # NullStr /\ v.error # "" THEN v.error ELSE NullStr,
               IF v.decodeVersion # NullStr /\ v.decodeVersion # ""
                   THEN v.decodeVersion ELSE DECODE_VERSION,
               IF v.resolvedAtUtc # NullStr /\ v.resolvedAtUtc # ""
                   THEN v.resolvedAtUtc ELSE "now")
    ELSE Absent

\* mutant: only bare tier integers survive the migration
migrateEntry_numbersOnly(v) ==
    IF v.shape = "number" /\ (v.tier = 10 \/ v.tier = 20)
    THEN Entry("object", v.tier, Null, Null, "migrated/flat-number", NullStr,
               "unknown", "now")
    ELSE Absent

\* loadTierCache, the migration of one flat value
migrateEntry(v) ==
    IF v.shape = "number" /\ (v.tier = 10 \/ v.tier = 20)
    THEN Entry("object", v.tier, Null, Null, "migrated/flat-number", NullStr,
               "unknown", "now")
    ELSE IF v.shape = "object"
    THEN Entry("object",
               IF v.tier = 10 \/ v.tier = 20 THEN v.tier ELSE Null,
               v.matchedBlock,
               v.anchorWinBlock,
               IF v.method # NullStr /\ v.method # "" THEN v.method ELSE "migrated/object",
               IF v.error # NullStr /\ v.error # "" THEN v.error ELSE NullStr,
               IF v.decodeVersion # NullStr /\ v.decodeVersion # ""
                   THEN v.decodeVersion ELSE "unknown",
               IF v.resolvedAtUtc # NullStr /\ v.resolvedAtUtc # ""
                   THEN v.resolvedAtUtc ELSE "now")
    ELSE Absent

\* loadTierCache: the byTournamentId map main starts from
loadTierCache(f) ==
    IF f.kind = "missing" THEN EmptyMap
    ELSE IF f.kind = "current" THEN f.byTid
    ELSE [t \in AllTids |-> migrateEntry(f.byTid[t])]

\* mutant: USE_CACHE is not looked at
cacheHit_ignoreFlag(useCache, cached) ==
    /\ (tierOf(cached) = 10 \/ tierOf(cached) = 20)
    /\ versionOf(cached) = DECODE_VERSION

\* mutant: the version of the entry is not looked at
cacheHit_anyVersion(useCache, cached) ==
    useCache /\ (tierOf(cached) = 10 \/ tierOf(cached) = 20)

\* if (CFG.USE_CACHE && (cachedTier === 10 || cachedTier === 20) && version matches)
cacheHit(useCache, cached) ==
    /\ useCache
    /\ (tierOf(cached) = 10 \/ tierOf(cached) = 20)
    /\ versionOf(cached) = DECODE_VERSION

\* what findTierByLookback returns
Found(tier, matchedBlock, error) ==
    [tier |-> tier, matchedBlock |-> matchedBlock, error |-> error]

NoResult == [tier |-> Null, matchedBlock |-> Null, error |-> "(not scanned)"]

\* mutant: the error of the scan is not kept in the entry
storeEntry_noError(found, winBlock) ==
    IF found.tier = 10 \/ found.tier = 20
    THEN Entry("object", found.tier, found.matchedBlock, winBlock, "logs/lookback",
               NullStr, DECODE_VERSION, "now")
    ELSE Entry("object", Null, Null, winBlock, "logs/lookback",
               NullStr, DECODE_VERSION, "now")

\* the entry main writes for `found`
storeEntry(found, winBlock) ==
    IF found.tier = 10 \/ found.tier = 20
    THEN Entry("object", found.tier, found.matchedBlock, winBlock, "logs/lookback",
               NullStr, DECODE_VERSION, "now")
    ELSE Entry("object", Null, Null, winBlock, "logs/lookback",
               IF found.error # NullStr /\ found.error # "" THEN found.error ELSE NullStr,
               DECODE_VERSION, "now")

\* what provider.getLogs may reject with: an Error with or without a message
Thrown == { [message |-> "timeout"], [message |-> ""] }

\* String(e?.message || e): an empty message falls back to String(e) = "Error"
errorText(e) == IF e.message # "" THEN e.message ELSE "Error"

(***************************************************************************)
(* The chain and the scan of one chunk                                     *)
(***************************************************************************)
Blocks == 0..MaxBlock

\* provider.getLogs: the logs of fromBlock..toBlock, oldest first
RECURSIVE getLogs(_, _, _)
getLogs(ch, fromBlock, to) ==
    IF fromBlock > to THEN << >>
    ELSE (IF fromBlock \in DOMAIN ch /\ ch[fromBlock] # << >>
          THEN << [blockNumber |-> fromBlock, words |-> ch[fromBlock]] >>
          ELSE << >>)
         \o getLogs(ch, fromBlock + 1, to)

\* const start = Math.max(0, winBlock - LOOKBACK_BLOCKS)
scanStart(winBlock, lookback) == Max(0, winBlock - lookback)

\* mutant: the chunk is not cut at the start of the window
fromBlockOf_uncut(start, to, chunk) == to - chunk + 1

\* const fromBlock = Math.max(start, toBlock - LOG_CHUNK_BLOCKS + 1)
fromBlockOf(start, to, chunk) == Max(start, to - chunk + 1)

\* one visited log: evaluated is false when the log lacks the identifier; call
\* is the number of the getLogs call that delivered it, set by the caller
Visit(tid, log, r, evaluated) ==
    [tid |-> tid, blockNumber |-> log.blockNumber, evaluated |-> evaluated,
     tier |-> r.tier, call |-> 0]

\* mutant: a tier does not end the loop; the last tier met is returned
RECURSIVE scanLogs_noReturn(_, _, _, _)
scanLogs_noReturn(logs, k, tid, acc) ==
    IF k < 1 THEN acc
    ELSE LET log == logs[k]
             has == \E w \in 1..Len(log.words) : log.words[w] = hex32FromU256(tid)
             r == IF has THEN evalLog(log.words, hex32FromU256(tid)) ELSE NoEval
             visits == Append(acc.visits, Visit(tid, log, r, has))
         IN IF r.tier = 10 \/ r.tier = 20
            THEN scanLogs_noReturn(logs, k - 1, tid,
                     [visits |-> visits, tier |-> r.tier, matchedBlock |-> log.blockNumber])
            ELSE scanLogs_noReturn(logs, k - 1, tid,
                     [visits |-> visits, tier |-> acc.tier, matchedBlock |-> acc.matchedBlock])

\* mutant: the logs are walked oldest first
RECURSIVE scanLogs_forward(_, _, _, _)
scanLogs_forward(logs, k, tid, acc) ==
    IF k < 1 THEN acc
    ELSE LET log == logs[Len(logs) + 1 - k]
             has == \E w \in 1..Len(log.words) : log.words[w] = hex32FromU256(tid)
             r == IF has THEN evalLog(log.words, hex32FromU256(tid)) ELSE NoEval
             visits == Append(acc.visits, Visit(tid, log, r, has))
         IN IF r.tier = 10 \/ r.tier = 20
            THEN [visits |-> visits, tier |-> r.tier, matchedBlock |-> log.blockNumber]
            ELSE scanLogs_forward(logs, k - 1, tid,
                     [visits |-> visits, tier |-> acc.tier, matchedBlock |-> acc.matchedBlock])

\* for (let i = logs.length - 1; i >= 0; i--): the logs of one chunk from the
\* last to the first, until one yields a tier
RECURSIVE scanLogs(_, _, _, _)
scanLogs(logs, k, tid, acc) ==
    IF k < 1 THEN acc
    ELSE LET log == logs[k]
             has == \E w \in 1..Len(log.words) : log.words[w] = hex32FromU256(tid)
             r == IF has THEN evalLog(log.words, hex32FromU256(tid)) ELSE NoEval
             visits == Append(acc.visits, Visit(tid, log, r, has))
         IN IF r.tier = 10 \/ r.tier = 20
            THEN [visits |-> visits, tier |-> r.tier, matchedBlock |-> log.blockNumber]
            ELSE scanLogs(logs, k - 1, tid,
                     [visits |-> visits, tier |-> acc.tier, matchedBlock |-> acc.matchedBlock])

NoVisits == [visits |-> << >>, tier |-> Null, matchedBlock |-> Null]

(***************************************************************************)
(* Wins                                                                    *)
(***************************************************************************)
Win(id, tournamentId, timestamp, blockNumber, wallet) ==
    [id |-> id, tournamentId |-> tournamentId, timestamp |-> timestamp,
     blockNumber |-> blockNumber, wallet |-> wallet, tier |-> Null]

RECURSIVE SelectWins(_, _)
SelectWins(ws, startBlock) ==
    IF ws = << >> THEN << >>
    ELSE (IF Head(ws).wallet # "" /\ Head(ws).blockNumber >= startBlock
          THEN << Head(ws) >> ELSE << >>)
         \o SelectWins(Tail(ws), startBlock)

\* tidToWinBlock.get(tid): the block of the first win of the identifier
winBlockOf(ws, tid) ==
    ws[CHOOSE k \in 1..Len(ws) :
          /\ ws[k].tournamentId = tid
          /\ \A j \in 1..(k - 1) : ws[j].tournamentId # tid].blockNumber

\* [...tidToWinBlock.keys()].sort((a, b) => a - b)
tidsOf(ws) == SortedSeq({ ws[k].tournamentId : k \in 1..Len(ws) })

\* mutant: a win whose identifier has no known tier is left out
withTiers_knownOnly(ws, byTid) ==
    SelectSeq([k \in 1..Len(ws) |-> [ws[k] EXCEPT !.tier = tierOf(byTid[ws[k].tournamentId])]],
              LAMBDA w : w.tier = 10 \/ w.tier = 20)

\* the last loop of main: each win takes the tier of its identifier's entry
withTiers(ws, byTid) ==
    [k \in 1..Len(ws) |->
        LET t == tierOf(byTid[ws[k].tournamentId])
        IN [ws[k] EXCEPT !.tier = IF t = 10 \/ t = 20 THEN t ELSE Null]]

NoOut == [written |-> FALSE, wins |-> << >>, unknownTierWins |-> 0,
          totalWins |-> 0, uniqueTournaments |-> 0]

\* the state of the run while only the engine is exercised
RunIdle ==
    /\ cfg = [LOOKBACK_BLOCKS |-> 0, LOG_CHUNK_BLOCKS |-> 1, START_BLOCK |-> 0,
              USE_CACHE |-> TRUE]
    /\ chain = [b \in Blocks |-> << >>]
    /\ rawWins = << >>
    /\ file = [kind |-> "missing", byTid |-> EmptyMap]
    /\ file0 = [kind |-> "missing", byTid |-> EmptyMap]
    /\ out = NoOut
    /\ pc = "idle"
    /\ cache = EmptyMap
    /\ wins = << >>
    /\ tids = << >>
    /\ tidI = 0
    /\ toBlock = Null
    /\ scanRes = [t \in AllTids |-> NoResult]
    /\ calls = << >>
    /\ evals = << >>
    /\ hits = {}

(***************************************************************************)
(* The match extraction scripts: winner hints joined to match logs         *)
(*   "topic0"  scripts/extract-matches-from-topic0.js                      *)
(*   "updated" scripts/extract-matches-from-topic0.updated.js              *)
(*   "debug"   the extractor in scripts/debug-profile-logs.js              *)
(* A topic is modelled by its value; AddrBase stands for 2^160, so a topic *)
(* below AddrBase has its twelve high bytes zero.                          *)
(***************************************************************************)
AddrBase == 100

\* topic0 script: null unless the high bytes are zero and the address is not
topicToAddress(topic) == IF topic >= AddrBase \/ topic = 0 THEN Null ELSE topic

\* updated and debug scripts: the last 20 bytes, whatever the rest holds
addrFromTopic(t) == t % AddrBase

\* BigInt(topic) of a well-formed topic
topicToUintBI(topic) == topic

\* topic0 script's wordToSmallInt: n <= 1000000n
matchWordToSmallInt(word) == IF word <= 1000000 THEN word ELSE Null

\* const flag = words[1] ? wordToSmallInt(words[1]) : null
flagOf(data) == IF Len(data) >= 2 THEN matchWordToSmallInt(data[2]) ELSE Null

\* a Map as a set of << key, value >> with one pair per key
mapGet(m, k) == IF \E q \in m : q[1] = k THEN (CHOOSE q \in m : q[1] = k)[2] ELSE Null
mapSet(m, k, v) == { q \in m : q[1] # k } \cup { << k, v >> }

\* if (!winnerByTxMatch.has(key)) winnerByTxMatch.set(key, wallet)
putFirst(m, k, v) == IF mapGet(m, k) = Null THEN mapSet(m, k, v) ELSE m

\* mutant: the key of the topic0 script without the transaction
keyTopic0_idOnly(tx, id) == << 0, id >>

\* `${log.transactionHash.toLowerCase()}:${matchIdBI.toString()}`
keyTopic0(tx, id) == << tx, id >>

\* winnersById / winnersByMatchId are keyed by the identifier alone
keyById(id) == << 0, id >>

NoIdx == [byKey |-> {}, byTx |-> {}]

\* mutant: the flag word is not compared with 1
hintTopic0_anyFlag(idx, log) ==
    LET matchIdBI == topicToUintBI(log.t1)
        wallet == topicToAddress(log.t2)
        flag == flagOf(log.data)
    IN IF matchIdBI = 0 \/ wallet = Null \/ flag = Null THEN idx
       ELSE [idx EXCEPT !.byKey = putFirst(@, keyTopic0(log.tx, matchIdBI), wallet)]

\* topic0 script, the body of `for (const log of hintLogs)`
hintTopic0(idx, log) ==
    LET matchIdBI == topicToUintBI(log.t1)
        wallet == topicToAddress(log.t2)
        flag == flagOf(log.data)
    IN IF matchIdBI = 0 \/ wallet = Null \/ flag = Null THEN idx
       ELSE IF flag # 1 THEN idx
       ELSE [idx EXCEPT !.byKey = putFirst(@, keyTopic0(log.tx, matchIdBI), wallet)]

\* updated and debug scripts, the body of pass 1: every hint is indexed by
\* its identifier and added to the winners of its transaction
hintById(idx, log) ==
    LET id == topicToUintBI(log.t1)
        winner == addrFromTopic(log.t2)
    IN [byKey |-> mapSet(idx.byKey, keyById(id), winner),
        byTx |-> idx.byTx \cup { << log.tx, winner >> }]

hintStep(script, idx, log) ==
    IF script = "topic0" THEN hintTopic0(idx, log) ELSE hintById(idx, log)

\* hintWinnersByTx.get(tx): the distinct winners hinted in a transaction
txWinners(idx, tx) == { q[2] : q \in { r \in idx.byTx : r[1] = tx } }

Largest(S) == CHOOSE x \in S : \A y \in S : y <= x

\* debug script: the identifier of a match log, from topics[1] or from the data
pickMatchIdFromMatchLog(t1, dataWords) ==
    IF t1 > 20000 THEN t1
    ELSE IF Len(dataWords) = 0 THEN Null
    ELSE IF Len(dataWords) >= 2
    THEN LET max == Largest({ dataWords[i] : i \in 1..Len(dataWords) })
         IN IF max > 20000 THEN max ELSE dataWords[1]
    ELSE IF dataWords[1] > 20000 THEN dataWords[1] ELSE Null

\* debug script: the first word that is at most 10
pickResultCodeFromMatchLog(dataWords) ==
    IF \E i \in 1..Len(dataWords) : dataWords[i] <= 10
    THEN dataWords[CHOOSE i \in 1..Len(dataWords) :
                      /\ dataWords[i] <= 10
                      /\ \A j \in 1..(i - 1) : dataWords[j] > 10]
    ELSE Null

\* one element of `matches`; via tells which lookup supplied the winner
MatchRecord(matchId, playerA, playerB, resultCode, winner, via, log) ==
    [matchId |-> matchId, playerA |-> playerA, playerB |-> playerB,
     resultCode |-> resultCode, winner |-> winner, via |-> via,
     txHash |-> log.tx, log |-> log]

\* mutant: the winner of the index is attached without looking at the players
matchTopic0_unchecked(idx, log) ==
    LET matchIdBI == topicToUintBI(log.t1)
        playerA == topicToAddress(log.t2)
        playerB == topicToAddress(log.t3)
        resultCode == IF Len(log.data) >= 1 THEN matchWordToSmallInt(log.data[1]) ELSE Null
        w == IF matchIdBI # 0 THEN mapGet(idx.byKey, keyTopic0(log.tx, matchIdBI)) ELSE Null
    IN IF w # Null
       THEN MatchRecord(matchIdBI, playerA, playerB, resultCode, w, "id", log)
       ELSE MatchRecord(matchIdBI, playerA, playerB, resultCode, Null, "none", log)

\* topic0 script, the body of `for (const log of matchLogs)`
matchTopic0(idx, log) ==
    LET matchIdBI == topicToUintBI(log.t1)
        playerA == topicToAddress(log.t2)
        playerB == topicToAddress(log.t3)
        resultCode == IF Len(log.data) >= 1 THEN matchWordToSmallInt(log.data[1]) ELSE Null
        w == IF matchIdBI # 0 THEN mapGet(idx.byKey, keyTopic0(log.tx, matchIdBI)) ELSE Null
    IN IF w # Null /\ (w = playerA \/ w = playerB)
       THEN MatchRecord(matchIdBI, playerA, playerB, resultCode, w, "id", log)
       ELSE MatchRecord(matchIdBI, playerA, playerB, resultCode, Null, "none", log)

\* updated script, the body of pass 2: id join, then the only winner of the
\* transaction
matchUpdated(idx, log) ==
    LET id == topicToUintBI(log.t1)
        playerA == addrFromTopic(log.t2)
        playerB == addrFromTopic(log.t3)
        resultCode == IF Len(log.data) >= 1 THEN log.data[1] ELSE Null
        byId == mapGet(idx.byKey, keyById(id))
        set == txWinners(idx, log.tx)
    IN IF byId # Null
       THEN MatchRecord(id, playerA, playerB, resultCode, byId, "id", log)
       ELSE IF Cardinality(set) = 1
       THEN MatchRecord(id, playerA, playerB, resultCode, CHOOSE only \in set : TRUE,
                        "tx", log)
       ELSE MatchRecord(id, playerA, playerB, resultCode, Null, "none", log)

\* mutant: the fallback takes a winner of the transaction whenever there is one
matchDebug_anyOfTx(idx, log) ==
    LET playerA == addrFromTopic(log.t2)
        playerB == addrFromTopic(log.t3)
        matchId == pickMatchIdFromMatchLog(log.t1, log.data)
        resultCode == pickResultCodeFromMatchLog(log.data)
        set == txWinners(idx, log.tx)
    IN IF matchId # Null /\ mapGet(idx.byKey, keyById(matchId)) # Null
       THEN MatchRecord(matchId, playerA, playerB, resultCode,
                        mapGet(idx.byKey, keyById(matchId)), "id", log)
       ELSE IF set # {} /\ (\E only \in set : only = playerA \/ only = playerB)
       THEN MatchRecord(matchId, playerA, playerB, resultCode,
                        CHOOSE only \in set : only = playerA \/ only = playerB, "tx", log)
       ELSE MatchRecord(matchId, playerA, playerB, resultCode, Null, "none", log)

\* debug script, the body of pass 2: matchId join, then the safe txHash fallback
matchDebug(idx, log) ==
    LET playerA == addrFromTopic(log.t2)
        playerB == addrFromTopic(log.t3)
        matchId == pickMatchIdFromMatchLog(log.t1, log.data)
        resultCode == pickResultCodeFromMatchLog(log.data)
        set == txWinners(idx, log.tx)
    IN IF matchId # Null /\ mapGet(idx.byKey, keyById(matchId)) # Null
       THEN MatchRecord(matchId, playerA, playerB, resultCode,
                        mapGet(idx.byKey, keyById(matchId)), "id", log)
       ELSE IF Cardinality(set) = 1 /\ (\E only \in set : only = playerA \/ only = playerB)
       THEN MatchRecord(matchId, playerA, playerB, resultCode, CHOOSE only \in set : TRUE,
                        "tx", log)
       ELSE MatchRecord(matchId, playerA, playerB, resultCode, Null, "none", log)

matchStep(script, idx, log) ==
    IF script = "topic0" THEN matchTopic0(idx, log)
    ELSE IF script = "updated" THEN matchUpdated(idx, log)
    ELSE matchDebug(idx, log)

\* the state of the extraction scripts while none of them runs
JoinIdle ==
    /\ jScript = "none"
    /\ jHints = << >>
    /\ jMatches = << >>
    /\ jPc = "idle"
    /\ jK = 0
    /\ jIdx = NoIdx
    /\ jOut = << >>

(***************************************************************************)
(* Engine inputs: lists of items, an item being a word or a run of fillers *)
(***************************************************************************)
\* the identifier whose tier the engine is asked for
TidWords == {500}
\* the small integers placed in a log besides the identifier
WordVals == {1, 10, 16, 20}
\* lengths of filler runs: single pads, the SPAN edge and the WINDOW edge
GapLens == {1, 2, 13, 39}

\* a gap of g fillers is the item -g
ItemsOf(tid) == {tid} \cup WordVals \cup { 0 - g : g \in GapLens }

RECURSIVE Fillers(_)
Fillers(n) == IF n = 0 THEN << >> ELSE << Filler >> \o Fillers(n - 1)

RECURSIVE Expand(_)
Expand(items) ==
    IF items = << >> THEN << >>
    ELSE (IF Head(items) < 0 THEN Fillers(0 - Head(items)) ELSE << Head(items) >>)
         \o Expand(Tail(items))

\* how many filler runs one input may hold
GapCounts == 0..2

\* the inputs: the identifier occurs, as in every log the scan evaluates
ItemLists(tid) ==
    { items \in UNION { [1..n -> ItemsOf(tid)] : n \in 1..MaxItems } :
        /\ \E i \in DOMAIN items : items[i] = tid
        /\ Cardinality({ i \in DOMAIN items : items[i] < 0 }) \in GapCounts }

InitEngine ==
    /\ eTid \in TidWords
    /\ \E items \in ItemLists(eTid) : eWords = Expand(items)
    /\ ePc = "input"
    /\ eBest = NoBest
    /\ eRes = NoEval
    /\ RunIdle
    /\ JoinIdle
    /\ AuxIdle

\* one log evaluated: lines 245-251 of findTierByLookback on the input
EngineApply ==
    /\ ePc = "input"
    /\ ePc' = "done"
    /\ eBest' = flexBestOf(eWords, eTid)
    /\ eRes' = IF \E i \in 1..Len(eWords) : eWords[i] = eTid
               THEN evalLog(eWords, eTid)
               ELSE NoEval
    /\ UNCHANGED << eWords, eTid >>
    /\ UNCHANGED runVars
    /\ UNCHANGED joinVars
    /\ UNCHANGED auxVars

NextEngine == EngineApply

SpecEngine == InitEngine /\ [][NextEngine]_vars

(***************************************************************************)
(* The run: main() of the post22m script                                   *)
(***************************************************************************)
\* logs of the diamond that mention identifier t
LogHit20(t) == << Filler, t, 16, 20 >>
LogHit10(t) == << Filler, t, 10 >>
LogAmb(t) == << Filler, t, 10, 20 >>

\* the chain holding the logs P, a set of << block, words >>
ChainOf(P) ==
    [b \in Blocks |-> IF \E pl \in P : pl[1] = b
                      THEN (CHOOSE pl \in P : pl[1] = b)[2]
                      ELSE << >>]

EngineIdle ==
    /\ eWords = << >>
    /\ eTid = 500
    /\ ePc = "idle"
    /\ eBest = NoBest
    /\ eRes = NoEval

RunStart ==
    /\ file0 = file
    /\ out = NoOut
    /\ pc = "start"
    /\ cache = EmptyMap
    /\ wins = << >>
    /\ tids = << >>
    /\ tidI = 0
    /\ toBlock = Null
    /\ scanRes = [t \in AllTids |-> NoResult]
    /\ calls = << >>
    /\ evals = << >>
    /\ hits = {}

\* entries a cache file may hold for an identifier
EntryCurrent10 == Entry("object", 10, MaxBlock, MaxBlock, "logs/lookback", NullStr,
                        DECODE_VERSION, "earlier")
EntryOld20 == Entry("object", 20, MaxBlock, MaxBlock, "logs/lookback", NullStr,
                    "sample70-v1-flexpair", "earlier")
EntryUnknown == Entry("object", Null, Null, MaxBlock, "logs/lookback", NullStr,
                      DECODE_VERSION, "earlier")
EntryNoVersion10 == Entry("object", 10, Null, Null, NullStr, NullStr, NullStr, NullStr)
EntryNumber10 == Entry("number", 10, Null, Null, NullStr, NullStr, NullStr, NullStr)
\* a flat value that is neither a tier nor an object
EntryNumber15 == Entry("number", 15, Null, Null, NullStr, NullStr, NullStr, NullStr)
\* what pull-wins-and-tier-from-chain.js left for an identifier it could not resolve
EntryNoVersionUnknown == Entry("object", Null, Null, Null, NullStr, NullStr, NullStr, NullStr)

FilesRun ==
    { [kind |-> k, byTid |-> [t \in AllTids |-> IF t = 500 THEN e1 ELSE e2]] :
        k \in {"missing", "current", "flat"},
        e1 \in {Absent, EntryCurrent10, EntryOld20, EntryUnknown, EntryNoVersion10,
                EntryNumber10},
        e2 \in {Absent, EntryOld20, EntryNumber15, EntryNoVersionUnknown} }

\* the wins the subgraph serves, oldest first; the first one lies below
\* START_BLOCK and the last one has no player
RawWinsRun ==
    { << Win("w1", 500, 11, MaxBlock, "0xaa") >>,
      << Win("w0", 501, 10, 0, "0xcc"),
         Win("w1", 501, 11, MaxBlock - 1, "0xaa"),
         Win("w2", 500, 12, MaxBlock, "0xbb"),
         Win("w3", 500, 13, MaxBlock, "0xaa"),
         Win("w4", 500, 14, MaxBlock, "") >> }

ChainsRun ==
    { ChainOf(p1 \cup p2) :
        p1 \in { {},
                 { << MaxBlock, LogHit20(500) >> },
                 { << MaxBlock - 1, LogHit10(500) >> },
                 { << MaxBlock, LogAmb(500) >>, << MaxBlock - 1, LogHit10(500) >> } },
        p2 \in { {}, { << MaxBlock - 2, LogHit10(501) >> } } }

Init ==
    /\ EngineIdle
    /\ cfg \in [LOOKBACK_BLOCKS : {1, 2}, LOG_CHUNK_BLOCKS : {1, 2},
                START_BLOCK : {1}, USE_CACHE : BOOLEAN]
    /\ chain \in ChainsRun
    /\ rawWins \in RawWinsRun
    /\ file \in FilesRun
    /\ RunStart
    /\ JoinIdle
    /\ AuxIdle

\* the scan of single identifiers: every placement of up to three logs,
\* every window and chunk size
LogCounts == 0..3

ChainsScan ==
    { ch \in [Blocks -> {<< >>, LogHit20(500), LogHit10(500), LogAmb(500), LogHit10(501)}] :
        Cardinality({ b \in Blocks : ch[b] # << >> }) \in LogCounts }

InitScan ==
    /\ EngineIdle
    /\ cfg \in [LOOKBACK_BLOCKS : {0, 1, 2, MaxBlock + 1}, LOG_CHUNK_BLOCKS : {1, 2, 3},
                START_BLOCK : {0}, USE_CACHE : {TRUE}]
    /\ chain \in ChainsScan
    /\ \E a \in Blocks : rawWins = << Win("w1", 500, 11, a, "0xaa") >>
    /\ file \in { [kind |-> "missing", byTid |-> EmptyMap],
                  [kind |-> "current",
                   byTid |-> [t \in AllTids |-> IF t = 500 THEN EntryCurrent10 ELSE Absent]] }
    /\ (file.kind = "missing" \/ chain = [b \in Blocks |-> << >>])
    /\ RunStart
    /\ JoinIdle
    /\ AuxIdle

\* ensureDir, loadTierCache
Start ==
    /\ pc = "start"
    /\ cache' = loadTierCache(file)
    /\ pc' = "fetch"
    /\ UNCHANGED << cfg, chain, rawWins, file, file0, out, wins, tids, tidI, toBlock,
                    scanRes, calls, evals, hits >>
    /\ UNCHANGED engineVars
    /\ UNCHANGED joinVars
    /\ UNCHANGED auxVars

\* gqlFetchAllTournamentWins answered; wins filtered, identifiers sorted
FetchWins ==
    /\ pc = "fetch"
    /\ wins' = SelectWins(rawWins, cfg.START_BLOCK)
    /\ tids' = tidsOf(wins')
    /\ tidI' = 1
    /\ pc' = "loop"
    /\ UNCHANGED << cfg, chain, rawWins, file, file0, out, cache, toBlock, scanRes,
                    calls, evals, hits >>
    /\ UNCHANGED engineVars
    /\ UNCHANGED joinVars
    /\ UNCHANGED auxVars

\* gqlFetchAllTournamentWins threw: main rejects, nothing is written
FetchFail ==
    /\ pc = "fetch"
    /\ pc' = "fatal"
    /\ UNCHANGED << cfg, chain, rawWins, file, file0, out, cache, wins, tids, tidI,
                    toBlock, scanRes, calls, evals, hits >>
    /\ UNCHANGED engineVars
    /\ UNCHANGED joinVars
    /\ UNCHANGED auxVars

\* the loop body up to `continue`
CacheHit ==
    /\ pc = "loop"
    /\ tidI <= Len(tids)
    /\ cacheHit(cfg.USE_CACHE, cache[tids[tidI]])
    /\ hits' = hits \cup { tids[tidI] }
    /\ tidI' = tidI + 1
    /\ UNCHANGED << cfg, chain, rawWins, file, file0, out, pc, cache, wins, tids,
                    toBlock, scanRes, calls, evals >>
    /\ UNCHANGED engineVars
    /\ UNCHANGED joinVars
    /\ UNCHANGED auxVars

\* mutant: the entry is also stored for the identifiers still to come
Returned_leak(found) ==
    /\ cache' = [t \in AllTids |->
                    IF t >= tids[tidI]
                    THEN storeEntry(found, winBlockOf(wins, tids[tidI]))
                    ELSE cache[t]]
    /\ scanRes' = [scanRes EXCEPT ![tids[tidI]] = found]
    /\ tidI' = tidI + 1
    /\ toBlock' = Null
    /\ pc' = "loop"

\* main's bookkeeping once findTierByLookback returned `found` for tids[tidI]
Returned(found) ==
    /\ cache' = [cache EXCEPT ![tids[tidI]] =
                    storeEntry(found, winBlockOf(wins, tids[tidI]))]
    /\ scanRes' = [scanRes EXCEPT ![tids[tidI]] = found]
    /\ tidI' = tidI + 1
    /\ toBlock' = Null
    /\ pc' = "loop"

\* no cache hit: findTierByLookback is entered and reaches its first getLogs
BeginScan ==
    /\ pc = "loop"
    /\ tidI <= Len(tids)
    /\ ~cacheHit(cfg.USE_CACHE, cache[tids[tidI]])
    /\ LET end == winBlockOf(wins, tids[tidI])
           start == scanStart(end, cfg.LOOKBACK_BLOCKS)
       IN IF end >= start
          THEN /\ toBlock' = end
               /\ pc' = "getLogs"
               /\ UNCHANGED << cache, scanRes, tidI >>
          ELSE Returned(Found(Null, Null, NullStr))
    /\ UNCHANGED << cfg, chain, rawWins, file, file0, out, wins, tids, calls, evals, hits >>
    /\ UNCHANGED engineVars
    /\ UNCHANGED joinVars
    /\ UNCHANGED auxVars

\* the getLogs call issued at pc = "getLogs"
CallOf(ok) ==
    LET start == scanStart(winBlockOf(wins, tids[tidI]), cfg.LOOKBACK_BLOCKS)
    IN [tid |-> tids[tidI],
        fromBlock |-> fromBlockOf(start, toBlock, cfg.LOG_CHUNK_BLOCKS),
        toBlock |-> toBlock, ok |-> ok]

\* provider.getLogs answered: the chunk's logs are walked; the scan returns a
\* tier, goes on to the next chunk, or ends without a tier
GetLogsOk ==
    /\ pc = "getLogs"
    /\ LET tid == tids[tidI]
           start == scanStart(winBlockOf(wins, tid), cfg.LOOKBACK_BLOCKS)
           call == CallOf(TRUE)
           logs == getLogs(chain, call.fromBlock, call.toBlock)
           r == scanLogs(logs, Len(logs), tid, NoVisits)
       IN /\ calls' = Append(calls, call)
          /\ evals' = evals \o [k \in 1..Len(r.visits) |->
                                    [r.visits[k] EXCEPT !.call = Len(calls) + 1]]
          /\ IF r.tier = 10 \/ r.tier = 20
             THEN Returned(Found(r.tier, r.matchedBlock, NullStr))
             ELSE IF toBlock - cfg.LOG_CHUNK_BLOCKS >= start
             THEN /\ toBlock' = toBlock - cfg.LOG_CHUNK_BLOCKS
                  /\ UNCHANGED << pc, cache, scanRes, tidI >>
             ELSE Returned(Found(Null, Null, NullStr))
    /\ UNCHANGED << cfg, chain, rawWins, file, file0, out, wins, tids, hits >>
    /\ UNCHANGED engineVars
    /\ UNCHANGED joinVars
    /\ UNCHANGED auxVars

\* mutant: a failed chunk is skipped and the scan goes on
GetLogsFail_skip ==
    /\ pc = "getLogs"
    /\ \E e \in Thrown :
        LET start == scanStart(winBlockOf(wins, tids[tidI]), cfg.LOOKBACK_BLOCKS)
        IN /\ calls' = Append(calls, CallOf(FALSE))
           /\ IF toBlock - cfg.LOG_CHUNK_BLOCKS >= start
              THEN /\ toBlock' = toBlock - cfg.LOG_CHUNK_BLOCKS
                   /\ UNCHANGED << pc, cache, scanRes, tidI >>
              ELSE Returned(Found(Null, Null, NullStr))
    /\ UNCHANGED << cfg, chain, rawWins, file, file0, out, wins, tids, evals, hits >>
    /\ UNCHANGED engineVars
    /\ UNCHANGED joinVars
    /\ UNCHANGED auxVars

\* provider.getLogs rejected: the scan returns the error at once
GetLogsFail ==
    /\ pc = "getLogs"
    /\ \E e \in Thrown :
        /\ calls' = Append(calls, CallOf(FALSE))
        /\ Returned(Found(Null, Null, errorText(e)))
    /\ UNCHANGED << cfg, chain, rawWins, file, file0, out, wins, tids, evals, hits >>
    /\ UNCHANGED engineVars
    /\ UNCHANGED joinVars
    /\ UNCHANGED auxVars

\* the process ends (a signal, the host going down) while main awaits
\* findTierByLookback: nothing more runs, line 474 is never reached
Stop ==
    /\ pc = "getLogs"
    /\ pc' = "stopped"
    /\ UNCHANGED << cfg, chain, rawWins, file, file0, out, cache, wins, tids, tidI,
                    toBlock, scanRes, calls, evals, hits >>
    /\ UNCHANGED engineVars
    /\ UNCHANGED joinVars
    /\ UNCHANGED auxVars

\* after the loop: the cache file, the tiers of the wins and the output
Finish ==
    /\ pc = "loop"
    /\ tidI > Len(tids)
    /\ file' = [kind |-> "current", byTid |-> cache]
    /\ LET tiered == withTiers(wins, cache)
       IN /\ wins' = tiered
          /\ out' = [written |-> TRUE, wins |-> tiered,
                     unknownTierWins |->
                         Cardinality({ k \in 1..Len(tiered) : tiered[k].tier = Null }),
                     totalWins |-> Len(tiered),
                     uniqueTournaments |-> Len(tids)]
    /\ pc' = "done"
    /\ UNCHANGED << cfg, chain, rawWins, file0, cache, tids, tidI, toBlock, scanRes,
                    calls, evals, hits >>
    /\ UNCHANGED engineVars
    /\ UNCHANGED joinVars
    /\ UNCHANGED auxVars

Next ==
    \/ Start
    \/ FetchWins
    \/ FetchFail
    \/ CacheHit
    \/ BeginScan
    \/ GetLogsOk
    \/ GetLogsFail
    \/ Stop
    \/ Finish

Spec == Init /\ [][Next]_vars

SpecScan == InitScan /\ [][Next]_vars

(***************************************************************************)
(* The match extraction scripts: inputs and steps                          *)
(***************************************************************************)
JScripts == {"topic0", "updated", "debug"}
\* transaction hashes
JTxs == {1, 2}
\* topics[1] of a hint: zero, a small identifier, a large one
JHintIds == {0, 7, 30001}
\* topics[2] of a hint: player A, player B, a third address, and A's address
\* under non-zero high bytes
JWinnerTopics == {1, 2, 3, AddrBase + 1}
\* data of a hint: no flag word, flag 1, flag 2
JHintData == { << 5 >>, << 5, 1 >>, << 5, 2 >> }
\* data of a match: nothing, a result code, a result code and an identifier
JMatchData == { << >>, << 1 >>, << 1, 30001 >>, << 7, 1 >> }

HintLog(tx, t1, t2, data) == [tx |-> tx, t1 |-> t1, t2 |-> t2, data |-> data]
MatchLog(tx, t1, t2, t3, data) == [tx |-> tx, t1 |-> t1, t2 |-> t2, t3 |-> t3, data |-> data]

JHintLogs == { HintLog(tx, t1, t2, d) :
                 tx \in JTxs, t1 \in JHintIds, t2 \in JWinnerTopics, d \in JHintData }
JMatchLogs == { MatchLog(tx, t1, 1, 2, d) : tx \in JTxs, t1 \in {7, 30001}, d \in JMatchData }

\* how many hint logs the scanned range holds
HintCounts == 0..2

InitJoin ==
    /\ EngineIdle
    /\ RunIdle
    /\ AuxIdle
    /\ jScript \in JScripts
    /\ jHints \in UNION { [1..n -> JHintLogs] : n \in HintCounts }
    /\ jMatches \in [1..1 -> JMatchLogs]
    /\ jPc = "hints"
    /\ jK = 1
    /\ jIdx = NoIdx
    /\ jOut = << >>

\* pass 1, one hint log
HintStep ==
    /\ jPc = "hints"
    /\ jK <= Len(jHints)
    /\ jIdx' = hintStep(jScript, jIdx, jHints[jK])
    /\ jK' = jK + 1
    /\ UNCHANGED << jScript, jHints, jMatches, jPc, jOut >>
    /\ UNCHANGED << engineVars, runVars, auxVars >>

\* pass 1 is over
PassTwo ==
    /\ jPc = "hints"
    /\ jK > Len(jHints)
    /\ jPc' = "matches"
    /\ jK' = 1
    /\ UNCHANGED << jScript, jHints, jMatches, jIdx, jOut >>
    /\ UNCHANGED << engineVars, runVars, auxVars >>

\* pass 2, one match log
MatchStep ==
    /\ jPc = "matches"
    /\ jK <= Len(jMatches)
    /\ jOut' = Append(jOut, matchStep(jScript, jIdx, jMatches[jK]))
    /\ jK' = jK + 1
    /\ UNCHANGED << jScript, jHints, jMatches, jPc, jIdx >>
    /\ UNCHANGED << engineVars, runVars, auxVars >>

\* the payload with `matches` is written
WriteMatches ==
    /\ jPc = "matches"
    /\ jK > Len(jMatches)
    /\ jPc' = "done"
    /\ UNCHANGED << jScript, jHints, jMatches, jK, jIdx, jOut >>
    /\ UNCHANGED << engineVars, runVars, auxVars >>

NextJoin ==
    \/ HintStep
    \/ PassTwo
    \/ MatchStep
    \/ WriteMatches

SpecJoin == InitJoin /\ [][NextJoin]_vars

(***************************************************************************)
(* The older tier scanners                                                 *)
(*   "v2"       scripts/pull-wins-tier-from-logs-v2.js                     *)
(*   "v3"       scripts/pull-wins-tier-from-logs-v3-scanfloor.js           *)
(*   "flexpair" scripts/fix-tournament-tiers-from-logs-flexpair.js         *)
(* One identifier is resolved; a log is the list of its data words.        *)
(***************************************************************************)
OScripts == {"v2", "v3", "flexpair"}

\* the identifier the older scanner resolves
OTid == 500

\* the blocks of the chain the older scanners read
OBlocks == 0..3

\* words left and right of the identifier that chooseBestFlexPair inspects
FLEX_WINDOW == 14

logMentionsTid(words) == \E i \in 1..Len(words) : words[i] = OTid

\* v3: prefer 20 if both present
extractTier(words) ==
    IF \E i \in 1..Len(words) : words[i] = 20 THEN 20
    ELSE IF \E i \in 1..Len(words) : words[i] = 10 THEN 10
    ELSE Null

\* v2: a single hit wins; else the first hit next to a small number; else 20
extractTierFromWords(words) ==
    LET tierHits == { i \in 1..Len(words) : words[i] = 10 \/ words[i] = 20 }
        near(h) == \E j \in Max(1, h - 1)..Min(Len(words), h + 1) :
                       j # h /\ words[j] >= 0 /\ words[j] <= 25
        nearHits == { h \in tierHits : near(h) }
    IN IF tierHits = {} THEN Null
       ELSE IF Cardinality(tierHits) = 1 THEN words[CHOOSE h \in tierHits : TRUE]
       ELSE IF nearHits # {}
       THEN words[CHOOSE h \in nearHits : \A g \in nearHits : h <= g]
       ELSE IF \E h \in tierHits : words[h] = 20 THEN 20 ELSE 10

isLikelyLevel(x) == x >= 1 /\ x <= 100

NoPair == [minLevel |-> Null, maxLevel |-> Null, score |-> Null]

\* the score chooseBestFlexPair gives to the ordered pair of candidates at a, b
oldPairScore(words, tidWordIndex, a, b) ==
    (IF words[b] = 20 THEN 1000 ELSE IF words[b] = 10 THEN 800 ELSE 100)
    + (IF words[a] >= 1 /\ words[a] <= 20 THEN 40 ELSE 0)
    + (IF words[b] - words[a] <= 20 THEN 10 ELSE 0)
    + (20 - Min(20, Abs(a - tidWordIndex)))
    + (20 - Min(20, Abs(b - tidWordIndex)))
    + (IF a < b THEN 5 ELSE 0)

\* the first pair, in the order of the two loops, that has the highest score
chooseBestFlexPair(words, tidWordIndex) ==
    LET cands == { i \in Max(1, tidWordIndex - FLEX_WINDOW)
                         ..Min(Len(words), tidWordIndex + FLEX_WINDOW) :
                     isLikelyLevel(words[i]) }
        pairs == { ab \in cands \X cands : ab[1] # ab[2] /\ words[ab[1]] <= words[ab[2]] }
        sc(ab) == oldPairScore(words, tidWordIndex, ab[1], ab[2])
        before(x, y) == x[1] < y[1] \/ (x[1] = y[1] /\ x[2] <= y[2])
        top == { ab \in pairs : \A cd \in pairs : sc(cd) <= sc(ab) }
        first == CHOOSE ab \in top : \A cd \in top : before(ab, cd)
    IN IF pairs = {} THEN NoPair
       ELSE [minLevel |-> words[first[1]], maxLevel |-> words[first[2]], score |-> sc(first)]

pickTierFromMaxLevel(maxLevel) == IF maxLevel >= 16 THEN 20 ELSE 10

\* v2 and v3: the first log of the chunk that mentions the identifier and
\* yields 10 or 20 ends the scan
tierChunk(script, ch, start, end) ==
    LET tierAt(b) == IF ~logMentionsTid(ch[b]) THEN Null
                     ELSE IF script = "v3" THEN extractTier(ch[b])
                     ELSE extractTierFromWords(ch[b])
        good == { b \in start..end : tierAt(b) = 10 \/ tierAt(b) = 20 }
        b0 == CHOOSE b \in good : \A c \in good : b <= c
    IN IF good = {} THEN NoFound
       ELSE [kind |-> "found", tier |-> tierAt(b0), minLevel |-> Null, maxLevel |-> Null,
             block |-> b0]

\* flexpair: every log of the chunk with a pair overwrites `found`, a clean
\* range stops the loop over the chunk's logs
RECURSIVE flexChunk(_, _, _, _)
flexChunk(ch, b, end, found) ==
    IF b > end THEN found
    ELSE LET words == ch[b]
             hitIndex == CHOOSE i \in 1..Len(words) :
                             words[i] = OTid /\ \A j \in 1..(i - 1) : words[j] # OTid
             best == chooseBestFlexPair(words, hitIndex)
             f == [kind |-> "found", tier |-> pickTierFromMaxLevel(best.maxLevel),
                   minLevel |-> best.minLevel, maxLevel |-> best.maxLevel, block |-> b]
         IN IF ~logMentionsTid(words) THEN flexChunk(ch, b + 1, end, found)
            ELSE IF best = NoPair THEN flexChunk(ch, b + 1, end, found)
            ELSE IF (f.maxLevel = 20 /\ f.minLevel >= 10) \/ f.maxLevel = 10 THEN f
            ELSE flexChunk(ch, b + 1, end, f)

oldChunk(script, ch, start, end) ==
    IF script = "flexpair" THEN flexChunk(ch, start, end, NoFound)
    ELSE tierChunk(script, ch, start, end)

\* the window of one pass
oFrom(script, c, pass) ==
    Max(IF script = "v3" THEN c.SCAN_MIN_BLOCK ELSE 0, c.winBlock - c.lookbacks[pass])
oTo(script, c) == IF script = "flexpair" THEN Min(c.latestBlock, c.winBlock) ELSE c.winBlock

\* the placeholder written when no pass found a tier
MissEntry == [kind |-> "miss", tier |-> Null, minLevel |-> Null, maxLevel |-> Null,
              block |-> Null]

\* the logs a block of the older scanners' chain may hold
OLogs == { << >>, << OTid, 10, 10 >>, << OTid, 16, 20 >>, << OTid, 17, 19 >>,
           << OTid, 20, 25 >>, << OTid, 3, Filler >>, << 7, 10, 10 >> }

OChains == { ch \in [OBlocks -> OLogs] : Cardinality({ b \in OBlocks : ch[b] # << >> }) <= 2 }

OCfgs(script) ==
    IF script = "flexpair"
    THEN { [winBlock |-> w, lookbacks |-> << l >>, CHUNK_SIZE |-> k, SCAN_MIN_BLOCK |-> 0,
            latestBlock |-> t] : w \in 1..3, l \in {2, 3}, k \in {1, 2}, t \in {2, 3} }
    ELSE { [winBlock |-> w, lookbacks |-> << 1, 3 >>, CHUNK_SIZE |-> k, SCAN_MIN_BLOCK |-> m,
            latestBlock |-> 3] : w \in 1..3, k \in {1, 2},
                                 m \in IF script = "v3" THEN {1} ELSE {0} }

InitOld ==
    /\ EngineIdle
    /\ RunIdle
    /\ JoinIdle
    /\ PagerIdle
    /\ WordsIdle
    /\ MapIdle
    /\ PipeIdle
    /\ BackfillIdle
    /\ oScript \in OScripts
    /\ oCfg \in OCfgs(oScript)
    /\ oChain \in OChains
    /\ oPc = "scan"
    /\ oPass = 1
    /\ oStart = oFrom(oScript, oCfg, 1)
    /\ oCalls = << >>
    /\ oFound = NoFound
    /\ oEntry = NoFound

oldOthers == << engineVars, runVars, joinVars, pagerVars, wordVars, mapVars, pipeVars, backfillVars >>

oEnd == Min(oTo(oScript, oCfg), oStart + oCfg.CHUNK_SIZE - 1)

\* getLogs of the chunk succeeded and its logs were examined
OldGetLogsOk ==
    /\ oPc = "scan"
    /\ oStart <= oTo(oScript, oCfg)
    /\ LET f == oldChunk(oScript, oChain, oStart, oEnd)
       IN /\ oCalls' = Append(oCalls, [from |-> oStart, to |-> oEnd, ok |-> TRUE,
                                       pass |-> oPass])
          /\ oFound' = f
          /\ IF f.kind = "found"
             THEN oPc' = "write" /\ oStart' = oStart
             ELSE oPc' = oPc /\ oStart' = oStart + oCfg.CHUNK_SIZE
    /\ UNCHANGED << oScript, oCfg, oChain, oPass, oEntry >>
    /\ UNCHANGED oldOthers

\* getLogs of the chunk threw: `catch { continue; }`
OldGetLogsFail ==
    /\ oPc = "scan"
    /\ oStart <= oTo(oScript, oCfg)
    /\ oCalls' = Append(oCalls, [from |-> oStart, to |-> oEnd, ok |-> FALSE, pass |-> oPass])
    /\ oStart' = oStart + oCfg.CHUNK_SIZE
    /\ UNCHANGED << oScript, oCfg, oChain, oPc, oPass, oFound, oEntry >>
    /\ UNCHANGED oldOthers

\* the chunk loop ran out: the slow pass follows the fast one, or the scan ends
OldPassEnd ==
    /\ oPc = "scan"
    /\ oStart > oTo(oScript, oCfg)
    /\ IF oPass < Len(oCfg.lookbacks)
       THEN /\ oPass' = oPass + 1
            /\ oStart' = oFrom(oScript, oCfg, oPass + 1)
            /\ oPc' = oPc
       ELSE /\ oPc' = "write"
            /\ UNCHANGED << oPass, oStart >>
    /\ UNCHANGED << oScript, oCfg, oChain, oCalls, oFound, oEntry >>
    /\ UNCHANGED oldOthers

\* the cache entry of the identifier: what was found, or the placeholder
OldWrite ==
    /\ oPc = "write"
    /\ oEntry' = IF oFound.kind = "found" THEN oFound ELSE MissEntry
    /\ oPc' = "done"
    /\ UNCHANGED << oScript, oCfg, oChain, oPass, oStart, oCalls, oFound >>
    /\ UNCHANGED oldOthers

NextOld ==
    \/ OldGetLogsOk
    \/ OldGetLogsFail
    \/ OldPassEnd
    \/ OldWrite

SpecOld == InitOld /\ [][NextOld]_vars

(***************************************************************************)
(* The win pager                                                           *)
(*   "post22m" gqlFetchAllTournamentWins of the post22m script             *)
(*   "v3"      the page loop of main in the v3-scanfloor script            *)
(* The subgraph holds the wins 1..pgTotal, oldest first.                   *)
(***************************************************************************)
PagerScripts == {"post22m", "v3"}

\* tournamentWins(first, skip): at most `first` wins after the first `skip`
pageOf(total, first, skip) ==
    [k \in 1..Max(0, Min(first, total - skip)) |-> skip + k]

PagerCfgs(script) ==
    IF script = "post22m"
    THEN { [first |-> f, MAX_PAGES |-> 0] : f \in 1..3 }
    ELSE { [first |-> f, MAX_PAGES |-> m] : f \in 1..3, m \in 2..3 }

InitPager ==
    /\ EngineIdle
    /\ RunIdle
    /\ JoinIdle
    /\ OldIdle
    /\ WordsIdle
    /\ MapIdle
    /\ PipeIdle
    /\ BackfillIdle
    /\ pgScript \in PagerScripts
    /\ pgCfg \in PagerCfgs(pgScript)
    /\ pgTotal \in 0..7
    /\ pgPage = 0
    /\ pgAll = << >>
    /\ pgReqs = << >>
    /\ pgPc = "fetch"

pagerOthers == << engineVars, runVars, joinVars, oldVars, wordVars, mapVars, pipeVars, backfillVars >>

\* the subgraph answered the request: the batch is appended; a short batch
\* ends the loop, and so does the page counter of the older script
PageOk ==
    /\ pgPc = "fetch"
    /\ LET skip == pgPage * pgCfg.first
           batch == pageOf(pgTotal, pgCfg.first, skip)
       IN /\ pgAll' = pgAll \o batch
          /\ pgReqs' = Append(pgReqs, [first |-> pgCfg.first, skip |-> skip,
                                       length |-> Len(batch)])
          /\ IF Len(batch) < pgCfg.first
             THEN pgPc' = "returned" /\ pgPage' = pgPage
             ELSE /\ pgPage' = pgPage + 1
                  /\ pgPc' = IF pgScript = "v3" /\ pgPage + 1 >= pgCfg.MAX_PAGES
                             THEN "returned" ELSE "fetch"
    /\ UNCHANGED << pgScript, pgCfg, pgTotal >>
    /\ UNCHANGED pagerOthers

\* the request failed (HTTP status or GraphQL errors): the pager throws
PageFail ==
    /\ pgPc = "fetch"
    /\ pgPc' = "thrown"
    /\ UNCHANGED << pgScript, pgCfg, pgTotal, pgPage, pgAll, pgReqs >>
    /\ UNCHANGED pagerOthers

NextPager ==
    \/ PageOk
    \/ PageFail

SpecPager == InitPager /\ [][NextPager]_vars

(***************************************************************************)
(* Word extraction                                                         *)
(*   "extractWordsFromLog" of the post22m script (with splitDataWords)     *)
(*   "splitWords"          of scripts/extract-matches-from-topic0.js       *)
(* A hex string is the sequence of its characters.                         *)
(***************************************************************************)
\* hex characters of one 32-byte word
WORD_CHARS == 64

WordFns == {"extractWordsFromLog", "splitWords"}

lowerChar(c) == IF c = "A" THEN "a" ELSE IF c = "X" THEN "x" ELSE c

toLowerCase(str) == [k \in 1..Len(str) |-> lowerChar(str[k])]

\* str.slice(a, b), positions counted from 0
slice(str, a, b) == SubSeq(str, a + 1, Min(b, Len(str)))

startsWith0x(str) == Len(str) >= 2 /\ str[1] = "0" /\ str[2] = "x"

\* the loop of splitDataWords: only whole words are pushed
RECURSIVE splitDataLoop(_, _)
splitDataLoop(clean, i) ==
    IF i + WORD_CHARS <= Len(clean)
    THEN << toLowerCase(<< "0", "x" >> \o slice(clean, i, i + WORD_CHARS)) >>
         \o splitDataLoop(clean, i + WORD_CHARS)
    ELSE << >>

splitDataWords(dataHex) ==
    IF dataHex = << >> \/ dataHex = << "0", "x" >> THEN << >>
    ELSE splitDataLoop(IF startsWith0x(dataHex) THEN slice(dataHex, 2, Len(dataHex))
                       ELSE dataHex, 0)

extractWordsFromLog(topics, data) ==
    [k \in 1..Len(topics) |-> toLowerCase(topics[k])] \o splitDataWords(data)

\* the loop of splitWords: a word is pushed for every started chunk
RECURSIVE splitWordsLoop(_, _)
splitWordsLoop(hex, i) ==
    IF i < Len(hex)
    THEN << << "0", "x" >> \o slice(hex, i, i + WORD_CHARS) >>
         \o splitWordsLoop(hex, i + WORD_CHARS)
    ELSE << >>

splitWords(data) ==
    IF data = << >> \/ data = << "0", "x" >> THEN << >>
    ELSE splitWordsLoop(slice(data, 2, Len(data)), 0)

\* a word whose last hex character is c
HexWord(c) == [k \in 1..WORD_CHARS |-> IF k = WORD_CHARS THEN c ELSE "0"]

WordLists(chars) ==
    { << >> } \cup { << HexWord(c) >> : c \in chars }
              \cup { << HexWord(c), HexWord(d) >> : c \in chars, d \in chars }

RECURSIVE Flatten(_)
Flatten(ws) == IF ws = << >> THEN << >> ELSE Head(ws) \o Flatten(Tail(ws))

\* log.topics: 32-byte values as the node returns them
TopicLists == { [k \in 1..Len(ws) |-> << "0", "x" >> \o ws[k]] : ws \in WordLists({"a", "A"}) }

\* a trailing partial chunk of a data field, by its number of characters
Partial(n) == [k \in 1..n |-> "1"]

\* log.data: null, or 0x followed by whole words and a partial chunk
DataStrings ==
    { << >> } \cup { << "0", "x" >> \o Flatten(ws) \o Partial(n) :
                         ws \in WordLists({"1", "A"}), n \in {0, 1, WORD_CHARS - 1} }

InitWords ==
    /\ EngineIdle
    /\ RunIdle
    /\ JoinIdle
    /\ OldIdle
    /\ PagerIdle
    /\ MapIdle
    /\ PipeIdle
    /\ BackfillIdle
    /\ wFn \in WordFns
    /\ wTopics \in TopicLists
    /\ wData \in DataStrings
    /\ wPc = "input"
    /\ wOut = << >>

wordOthers == << engineVars, runVars, joinVars, oldVars, pagerVars, mapVars, pipeVars, backfillVars >>

\* the function is applied to the log
WordsApply ==
    /\ wPc = "input"
    /\ wOut' = IF wFn = "extractWordsFromLog" THEN extractWordsFromLog(wTopics, wData)
               ELSE splitWords(wData)
    /\ wPc' = "done"
    /\ UNCHANGED << wFn, wTopics, wData >>
    /\ UNCHANGED wordOthers

NextWords == WordsApply

SpecWords == InitWords /\ [][NextWords]_vars

(***************************************************************************)
(* mapWithConcurrency of scripts/pull-wins-and-tier-from-chain.js          *)
(* Items are numbered 1..mcN; the worker is the one main passes, which     *)
(* suspends at each provider.call of callEntrySettings and never throws.   *)
(***************************************************************************)
\* the provider.call awaits one worker invocation may go through
WorkerCalls == 0..2

\* `results[i] = await worker(items[i], i)`: the runner waits for the worker
\* mutant: the worker is started and not awaited
awaitWorker_forget(i) == [st |-> "ready", item |-> i]

awaitWorker(i) == [st |-> "await", item |-> i]

InitMap ==
    /\ EngineIdle
    /\ RunIdle
    /\ JoinIdle
    /\ OldIdle
    /\ PagerIdle
    /\ WordsIdle
    /\ PipeIdle
    /\ BackfillIdle
    /\ mcN \in 0..4
    /\ mcConc \in 1..3
    /\ mcIdx = 0
    /\ mcRun = [r \in 1..mcConc |-> [st |-> "ready", item |-> 0]]
    /\ mcHanded = [i \in 1..mcN |-> 0]
    /\ mcFlight = {}
    /\ mcResults = {}
    /\ mcPc = "running"

mapOthers == << engineVars, runVars, joinVars, oldVars, pagerVars, wordVars, pipeVars, backfillVars >>

\* a runner takes the next index: `const i = idx++`, then stops or calls the
\* worker, which runs up to its first await
MapTake ==
    /\ mcPc = "running"
    /\ \E r \in 1..mcConc :
          /\ mcRun[r].st = "ready"
          /\ mcIdx' = mcIdx + 1
          /\ IF mcIdx >= mcN
             THEN /\ mcRun' = [mcRun EXCEPT ![r] = [st |-> "done", item |-> 0]]
                  /\ UNCHANGED << mcHanded, mcFlight >>
             ELSE /\ mcRun' = [mcRun EXCEPT ![r] = awaitWorker(mcIdx + 1)]
                  /\ mcHanded' = [mcHanded EXCEPT ![mcIdx + 1] = @ + 1]
                  /\ mcFlight' = mcFlight \cup { << mcIdx + 1, 0 >> }
    /\ UNCHANGED << mcN, mcConc, mcResults, mcPc >>
    /\ UNCHANGED mapOthers

\* a provider.call of a worker settled and callEntrySettings made the next
MapWorkerCall ==
    /\ mcPc = "running"
    /\ \E f \in mcFlight :
          /\ f[2] + 1 \in WorkerCalls
          /\ mcFlight' = (mcFlight \ { f }) \cup { << f[1], f[2] + 1 >> }
    /\ UNCHANGED << mcN, mcConc, mcIdx, mcRun, mcHanded, mcResults, mcPc >>
    /\ UNCHANGED mapOthers

\* a worker returned: its result is stored and its runner goes on
MapWorkerReturn ==
    /\ mcPc = "running"
    /\ \E f \in mcFlight :
          /\ mcFlight' = mcFlight \ { f }
          /\ mcResults' = mcResults \cup { f[1] }
          /\ mcRun' = [r \in 1..mcConc |->
                          IF mcRun[r].st = "await" /\ mcRun[r].item = f[1]
                          THEN [st |-> "ready", item |-> 0] ELSE mcRun[r]]
    /\ UNCHANGED << mcN, mcConc, mcIdx, mcHanded, mcPc >>
    /\ UNCHANGED mapOthers

\* every runner ended: Promise.all resolves and the results are returned
MapReturn ==
    /\ mcPc = "running"
    /\ \A r \in 1..mcConc : mcRun[r].st = "done"
    /\ mcPc' = "returned"
    /\ UNCHANGED << mcN, mcConc, mcIdx, mcRun, mcHanded, mcFlight, mcResults >>
    /\ UNCHANGED mapOthers

NextMap ==
    \/ MapTake
    \/ MapWorkerCall
    \/ MapWorkerReturn
    \/ MapReturn

SpecMap == InitMap /\ [][NextMap]_vars

(***************************************************************************)
(* The pipeline of scripts/update-all.js                                   *)
(***************************************************************************)
\* the scripts main runs, in order; the first one through runWithRetry
PipeSteps ==
    << "pull-wins-tier-from-logs-post22m-lookback", "resolve-profiles-community-api",
       "build-tournamentRanges-subgraph", "apply-tournament-ranges-to-leaderboard",
       "validate-public-data" >>

\* r.status of spawnSync: an exit code, or null when a signal ended the child
ChildStatuses == {0, 1, 2, Null}

\* process.exit(r.status ?? 1)
exitStatus(status) == IF status = Null THEN 1 ELSE status

\* how often a step may be spawned: `attempts` in runWithRetry, once in run
attemptsOf(c, step) == IF step = 1 THEN c.attempts ELSE 1

\* mutant: the last failed attempt does not end the pipeline
lastAttempt_never(i, attempts) == FALSE

\* `if (i === attempts)`
lastAttempt(i, attempts) == i = attempts

InitPipe ==
    /\ EngineIdle
    /\ RunIdle
    /\ JoinIdle
    /\ OldIdle
    /\ PagerIdle
    /\ WordsIdle
    /\ MapIdle
    /\ BackfillIdle
    /\ upCfg \in [attempts : 1..3]
    /\ upStep = 1
    /\ upAttempt = 1
    /\ upLog = << >>
    /\ upPc = "spawn"
    /\ upExit = Null

pipeOthers == << engineVars, runVars, joinVars, oldVars, pagerVars, wordVars, mapVars, backfillVars >>

\* the step after the current one, or the copies once the last script ran
stepDone ==
    IF upStep < Len(PipeSteps)
    THEN upStep' = upStep + 1 /\ upAttempt' = 1 /\ upPc' = "spawn"
    ELSE upPc' = "copy" /\ UNCHANGED << upStep, upAttempt >>

\* the child exited with status 0: the step is done
SpawnOk ==
    /\ upPc = "spawn"
    /\ upLog' = Append(upLog, [step |-> upStep, attempt |-> upAttempt, status |-> 0])
    /\ stepDone
    /\ UNCHANGED << upCfg, upExit >>
    /\ UNCHANGED pipeOthers

\* the child failed: the pipeline exits, or runWithRetry sleeps and retries
SpawnFail ==
    /\ upPc = "spawn"
    /\ \E st \in ChildStatuses \ {0} :
          /\ upLog' = Append(upLog, [step |-> upStep, attempt |-> upAttempt, status |-> st])
          /\ IF lastAttempt(upAttempt, attemptsOf(upCfg, upStep))
             THEN /\ upPc' = "exited"
                  /\ upExit' = exitStatus(st)
                  /\ UNCHANGED << upStep, upAttempt >>
             ELSE IF upAttempt + 1 <= attemptsOf(upCfg, upStep)
             THEN /\ upAttempt' = upAttempt + 1
                  /\ UNCHANGED << upStep, upPc, upExit >>
             ELSE /\ stepDone
                  /\ UNCHANGED upExit
    /\ UNCHANGED upCfg
    /\ UNCHANGED pipeOthers

\* the three copyIfExists calls and the end of main
CopyOutputs ==
    /\ upPc = "copy"
    /\ upPc' = "complete"
    /\ upExit' = 0
    /\ UNCHANGED << upCfg, upStep, upAttempt, upLog >>
    /\ UNCHANGED pipeOthers

NextPipe ==
    \/ SpawnOk
    \/ SpawnFail
    \/ CopyOutputs

SpecPipe == InitPipe /\ [][NextPipe]_vars

(***************************************************************************)
(* The profile backfill: scripts/resolve-profiles-metis-backfill.js        *)
(* The script may be run again after it ended or was interrupted; the      *)
(* cache file carries the cursor from one run to the next.                 *)
(***************************************************************************)
\* the runs of the script the model follows
BackfillRuns == 1..3

\* loadCache when the file is missing
NoBackfillCache == [cursor |-> Null, finished |-> FALSE]

InitBackfill ==
    /\ EngineIdle
    /\ RunIdle
    /\ JoinIdle
    /\ OldIdle
    /\ PagerIdle
    /\ WordsIdle
    /\ MapIdle
    /\ PipeIdle
    /\ bfCfg \in [CHUNK : 1..2, latest : 0..5]
    /\ bfCache = NoBackfillCache
    /\ bfCursor = 0
    /\ bfMissing \in 1..2
    /\ bfReqs = << >>
    /\ bfFirst = Null
    /\ bfRun = 1
    /\ bfPc = "start"

backfillOthers ==
    << engineVars, runVars, joinVars, oldVars, pagerVars, wordVars, mapVars, pipeVars >>

\* lines 66-93: the cache is loaded; a finished cache ends the run, else the
\* cursor is the saved one, or the latest block
BackfillStart ==
    /\ bfPc = "start"
    /\ IF bfCache.finished
       THEN /\ bfPc' = "ended"
            /\ UNCHANGED << bfCursor, bfFirst >>
       ELSE LET c0 == IF bfCache.cursor # Null THEN bfCache.cursor ELSE bfCfg.latest
                c == IF c0 < 0 THEN bfCfg.latest ELSE c0
            IN /\ bfCursor' = c
               /\ bfFirst' = IF bfFirst = Null THEN c ELSE bfFirst
               /\ bfPc' = "loop"
    /\ UNCHANGED << bfCfg, bfCache, bfMissing, bfReqs, bfRun >>
    /\ UNCHANGED backfillOthers

\* one turn of the loop: getLogs answered, names taken, cursor moved and saved
BackfillChunk ==
    /\ bfPc = "loop"
    /\ bfCursor > 0 /\ bfMissing > 0
    /\ LET fromBlock == Max(0, bfCursor - bfCfg.CHUNK)
       IN /\ bfReqs' = Append(bfReqs, [fromBlock |-> fromBlock, toBlock |-> bfCursor,
                                       ok |-> TRUE])
          /\ bfCursor' = fromBlock - 1
          /\ bfCache' = [bfCache EXCEPT !.cursor = fromBlock - 1]
    /\ \E found \in 0..bfMissing : bfMissing' = bfMissing - found
    /\ UNCHANGED << bfCfg, bfFirst, bfRun, bfPc >>
    /\ UNCHANGED backfillOthers

\* getLogs threw: main rejects and the process exits with status 1
BackfillFail ==
    /\ bfPc = "loop"
    /\ bfCursor > 0 /\ bfMissing > 0
    /\ bfReqs' = Append(bfReqs, [fromBlock |-> Max(0, bfCursor - bfCfg.CHUNK),
                                 toBlock |-> bfCursor, ok |-> FALSE])
    /\ bfPc' = "crashed"
    /\ UNCHANGED << bfCfg, bfCache, bfCursor, bfMissing, bfFirst, bfRun >>
    /\ UNCHANGED backfillOthers

\* the loop ended: at cursor <= 0 the cache is marked finished
BackfillEnd ==
    /\ bfPc = "loop"
    /\ ~(bfCursor > 0 /\ bfMissing > 0)
    /\ bfCache' = IF bfCursor <= 0 THEN [cursor |-> -1, finished |-> TRUE] ELSE bfCache
    /\ bfCursor' = IF bfCursor <= 0 THEN -1 ELSE bfCursor
    /\ bfPc' = "ended"
    /\ UNCHANGED << bfCfg, bfMissing, bfReqs, bfFirst, bfRun >>
    /\ UNCHANGED backfillOthers

\* the script is run again, the leaderboard possibly holding a new wallet
BackfillAgain ==
    /\ bfPc \in {"ended", "crashed"}
    /\ bfRun + 1 \in BackfillRuns
    /\ bfRun' = bfRun + 1
    /\ bfMissing' \in {bfMissing, Min(2, bfMissing + 1)}
    /\ bfPc' = "start"
    /\ UNCHANGED << bfCfg, bfCache, bfCursor, bfReqs, bfFirst >>
    /\ UNCHANGED backfillOthers

NextBackfill ==
    \/ BackfillStart
    \/ BackfillChunk
    \/ BackfillFail
    \/ BackfillEnd
    \/ BackfillAgain

SpecBackfill == InitBackfill /\ [][NextBackfill]_vars

(***************************************************************************)
(* Properties of the engine, stated on the words of the input              *)
(***************************************************************************)
eVal(i) == wordToSmallInt(eWords[i])
eTidPos == { i \in 1..Len(eWords) : eWords[i] = eTid }
eSmallPos == { i \in 1..Len(eWords) : eVal(i) # Null /\ eVal(i) <= 30 }
eInWindow(t, i) == Abs(i - t) <= 40

\* the pairs the flex-pair rule accepts: <<identifier index, min index, max index>>
eTightPairs ==
    { p \in eTidPos \X eSmallPos \X eSmallPos :
        /\ eInWindow(p[1], p[2]) /\ eInWindow(p[1], p[3])
        /\ p[2] < p[3] /\ p[3] - p[2] <= 14
        /\ eVal(p[3]) \in {10, 20}
        /\ eVal(p[2]) <= eVal(p[3])
        /\ eVal(p[3]) - eVal(p[2]) <= 4 }

\* some identifier occurrence has both a 10 and a 20 within 40 words
eAmbiguousWindow ==
    \E t \in eTidPos :
        /\ \E i \in eSmallPos : eInWindow(t, i) /\ eVal(i) = 10
        /\ \E i \in eSmallPos : eInWindow(t, i) /\ eVal(i) = 20

\* some identifier occurrence has a 20 and no 10 within 40 words
eOnly20Window ==
    \E t \in eTidPos :
        /\ \E i \in eSmallPos : eInWindow(t, i) /\ eVal(i) = 20
        /\ ~\E i \in eSmallPos : eInWindow(t, i) /\ eVal(i) = 10

\* C5 (as claimed): when an identifier occurrence has both 10 and 20 within
\* 40 words and no pair is accepted by inferTierFlexPair, the engine returns
\* unknown, never 10 or 20.
C5_NoGuess ==
    (ePc = "done" /\ eAmbiguousWindow /\ eTightPairs = {}) => eRes.tier = Null

\* C6: every tier inferTierFlexPair returns is the max of a pair of the input
\* with min <= max <= min + 4 and max equal to 10 or 20.
C6_TightBracket ==
    (ePc = "done" /\ eBest # NoBest) =>
        /\ eBest.max \in {10, 20}
        /\ eBest.min <= eBest.max
        /\ eBest.max <= eBest.min + 4
        /\ eBest.tier = eBest.max
        /\ eRes.flex = eBest.tier
        /\ << eBest.tidIdx, eBest.minIdx, eBest.maxIdx >> \in eTightPairs
        /\ eVal(eBest.minIdx) = eBest.min
        /\ eVal(eBest.maxIdx) = eBest.max

\* a wide pair (1, 20) lies within the span while a tight pair (16, 20) is returned
C6_Witness ==
    /\ ePc = "done"
    /\ eBest.min = 16 /\ eBest.max = 20 /\ eRes.flex = 20
    /\ \E i, j \in eSmallPos : i < j /\ j - i <= 14 /\ eVal(i) = 1 /\ eVal(j) = 20

\* a 20 with a min candidate 1 before it at close range, near the identifier
eWidePair1_20 ==
    \E t \in eTidPos : \E i, j \in eSmallPos :
        /\ eInWindow(t, i) /\ eInWindow(t, j)
        /\ i < j /\ j - i <= 14
        /\ eVal(i) = 1 /\ eVal(j) = 20

\* C7 (as claimed): a log with a (1, 20) pair at close range and no pair with
\* max - min <= 4 is not resolved to tier 20 by the engine.
C7_Original ==
    (ePc = "done" /\ eWidePair1_20 /\ eTightPairs = {}) => eRes.tier # 20

\* C7 (amended): for such a log inferTierFlexPair returns no tier; the engine
\* resolves it to 20 only through inferTierNearestUnambiguous, and only when
\* some identifier occurrence has a 20 and no 10 within 40 words.
C7_Amended ==
    (ePc = "done" /\ eWidePair1_20 /\ eTightPairs = {}) =>
        /\ eRes.flex = Null
        /\ eBest = NoBest
        /\ eRes.tier = 20 => (eRes.consulted /\ eRes.near = 20 /\ eOnly20Window)
        /\ eRes.tier = 10 => eRes.consulted

\* the (1, 20) log is resolved to 20 by the fallback
C7_Witness ==
    /\ ePc = "done" /\ eWidePair1_20 /\ eTightPairs = {}
    /\ eRes.flex = Null /\ eRes.tier = 20

\* the score of an accepted pair, as the claim states it
eScore(p) ==
    LET d == Min(Abs(p[2] - p[1]), Abs(p[3] - p[1]))
        span == p[3] - p[2]
    IN 10000 - 80 * d + (IF eVal(p[2]) = eVal(p[3]) THEN 25 ELSE 0) + (14 - span)

\* p is met before q: identifier occurrences in order, then words in window order
eMetBefore(p, q) ==
    \/ p[1] < q[1]
    \/ p[1] = q[1] /\ p[2] < q[2]
    \/ p[1] = q[1] /\ p[2] = q[2] /\ p[3] <= q[3]

\* the accepted pairs of highest score
eTopPairs == { p \in eTightPairs : \A q \in eTightPairs : eScore(q) <= eScore(p) }

\* the input is an identifier, a 16 two words after it, a 20 five words after
\* it, and fillers
eExample16_20 ==
    \E t \in 1..Len(eWords) :
        /\ Len(eWords) >= t + 5
        /\ \A i \in 1..Len(eWords) :
              eWords[i] = (IF i = t THEN eTid ELSE IF i = t + 2 THEN 16
                           ELSE IF i = t + 5 THEN 20 ELSE Filler)

\* C8: inferTierFlexPair returns the max of the accepted pair of highest score
\* 10000 - 80*d + (25 if min = max) + (14 - span); of pairs of equal score the
\* one met first is kept; the 16-at-2 / 20-at-5 example gives 20.
C8_BestScore ==
    ePc = "done" =>
        /\ eTightPairs = {} => (eBest = NoBest /\ eRes.flex = Null)
        /\ eTightPairs # {} =>
              LET first == CHOOSE p \in eTopPairs : \A q \in eTopPairs : eMetBefore(p, q)
              IN /\ << eBest.tidIdx, eBest.minIdx, eBest.maxIdx >> = first
                 /\ eBest.score = eScore(first)
                 /\ eRes.flex = eVal(first[3])
        /\ eExample16_20 => eRes.flex = 20

\* the example input was evaluated, and its pair (16, 20) scored 9851
C8_Witness ==
    /\ ePc = "done" /\ eExample16_20
    /\ eBest.min = 16 /\ eBest.max = 20 /\ eBest.score = 9851

\* C9: inferTierNearestUnambiguous is consulted only when inferTierFlexPair
\* returned no tier; a 10 or 20 of inferTierFlexPair is the log's tier whatever
\* other literal 10 or 20 words the window holds.
C9_FallbackOnlyOnMiss ==
    ePc = "done" =>
        /\ eRes.flex = eBest.tier
        /\ eRes.consulted => (eRes.flex # 10 /\ eRes.flex # 20)
        /\ eRes.flex \in {10, 20} => (eRes.tier = eRes.flex /\ ~eRes.consulted)

\* the flex pair gave 20 although a literal 10 lies in an identifier window
C9_Witness ==
    /\ ePc = "done"
    /\ eRes.flex = 20 /\ eRes.tier = 20 /\ ~eRes.consulted
    /\ \E t \in eTidPos : \E i \in eSmallPos : eInWindow(t, i) /\ eVal(i) = 10

(***************************************************************************)
(* Properties of the scan and of the run                                   *)
(***************************************************************************)
\* the identifiers main loops over
RunTids == { tids[k] : k \in 1..Len(tids) }

CallIdx(t) == { k \in 1..Len(calls) : calls[k].tid = t }
VisitIdx(t) == { k \in 1..Len(evals) : evals[k].tid = t }
Failed(t) == \E k \in CallIdx(t) : ~calls[k].ok
Scanned(t) == scanRes[t] # NoResult

\* the lookback window of identifier t: anchor and oldest block
AnchorOf(t) == winBlockOf(wins, t)
FloorOf(t) == IF AnchorOf(t) - cfg.LOOKBACK_BLOCKS > 0
              THEN AnchorOf(t) - cfg.LOOKBACK_BLOCKS ELSE 0

\* the tier the engine gives the log of block b for identifier t (Null: none)
LogTier(t, b) ==
    IF chain[b] # << >> /\ \E w \in 1..Len(chain[b]) : chain[b][w] = t
    THEN evalLog(chain[b], t).tier
    ELSE Null

\* every block of t's window lies in a chunk that was retrieved
Covered(t) ==
    \A b \in FloorOf(t)..AnchorOf(t) :
        \E k \in CallIdx(t) :
            calls[k].ok /\ calls[k].fromBlock <= b /\ b <= calls[k].toBlock

\* C1 (as claimed): a scan that ended with a getLogs error leaves no
\* tier-unknown entry for its identifier in the written cache file.
C1_Original ==
    pc = "done" =>
        \A t \in RunTids :
            Failed(t) => ~(file.byTid[t].shape = "object" /\ file.byTid[t].tier = Null)

\* C1 (amended): a scan that ended with a getLogs error leaves a tier-unknown
\* entry that carries the error text; a tier-unknown entry without an error is
\* written only when every chunk of the window was retrieved and no log of the
\* window yielded a tier.
C1_Amended ==
    pc = "done" =>
        \A t \in RunTids :
            Scanned(t) =>
                LET e == file.byTid[t]
                IN /\ Failed(t) =>
                        /\ e.shape = "object" /\ e.tier = Null
                        /\ e.error = scanRes[t].error
                        /\ e.error \notin {NullStr, ""}
                        /\ e.decodeVersion = DECODE_VERSION
                   /\ (e.tier = Null /\ e.error = NullStr) =>
                        /\ ~Failed(t)
                        /\ Covered(t)
                        /\ \A b \in FloorOf(t)..AnchorOf(t) : LogTier(t, b) = Null

\* a scan failed although its window held a decodable log, and the file has
\* the tier-unknown entry with the error
C1_Witness ==
    /\ pc = "done"
    /\ \E t \in RunTids :
        /\ Failed(t)
        /\ file.byTid[t].tier = Null /\ file.byTid[t].error = "timeout"
        /\ \E b \in FloorOf(t)..AnchorOf(t) : LogTier(t, b) # Null

\* C2: a failed getLogs call is the last call of its identifier's scan, no log
\* is visited after it, and the result carries a non-empty error; a scan that
\* retrieved every chunk and found no tier carries no error.
C2_ErrorStopsScan ==
    /\ \A k \in 1..Len(calls) :
          ~calls[k].ok =>
              LET t == calls[k].tid
              IN /\ \A m \in CallIdx(t) : m <= k
                 /\ \A v \in VisitIdx(t) : evals[v].call < k
                 /\ Scanned(t)
                 /\ scanRes[t].tier = Null
                 /\ scanRes[t].error \notin {NullStr, ""}
    /\ \A t \in AllTids :
          (Scanned(t) /\ ~Failed(t) /\ scanRes[t].tier = Null) =>
              /\ scanRes[t].error = NullStr
              /\ Covered(t)

\* the second call of a scan failed while older chunks were still to come
C2_Witness ==
    \E k \in 2..Len(calls) :
        /\ ~calls[k].ok
        /\ calls[k - 1].tid = calls[k].tid
        /\ calls[k].fromBlock > FloorOf(calls[k].tid)
        /\ scanRes[calls[k].tid].error = "timeout"
        /\ pc = "done"

\* C3: a returned tier is the tier of the first log in scan order (newest
\* first) that yields one; it is the last log visited, its block is the
\* matched block, and no call covers only blocks older than it.
C3_ShortCircuit ==
    \A t \in AllTids :
        (Scanned(t) /\ scanRes[t].tier \in {10, 20}) =>
            LET mb == scanRes[t].matchedBlock
                last == CHOOSE v \in VisitIdx(t) : \A u \in VisitIdx(t) : u <= v
            IN /\ VisitIdx(t) # {}
               /\ evals[last].evaluated
               /\ evals[last].tier = scanRes[t].tier
               /\ evals[last].blockNumber = mb
               /\ \A v \in VisitIdx(t) \ {last} :
                     evals[v].tier = Null /\ evals[v].blockNumber > mb
               /\ \A k \in CallIdx(t) : calls[k].ok /\ calls[k].toBlock >= mb
               /\ mb \in FloorOf(t)..AnchorOf(t)
               /\ LogTier(t, mb) = scanRes[t].tier
               /\ \A b \in (mb + 1)..AnchorOf(t) : LogTier(t, b) = Null

\* the tier came from the third-newest block, after a newer log without a
\* tier, while an older block held a decodable log too
C3_Witness ==
    \E t \in AllTids :
        /\ Scanned(t) /\ scanRes[t].tier = 20
        /\ scanRes[t].matchedBlock = AnchorOf(t) - 2
        /\ \E v \in VisitIdx(t) : evals[v].evaluated /\ evals[v].tier = Null
        /\ \E b \in FloorOf(t)..(scanRes[t].matchedBlock - 1) : LogTier(t, b) = 10
        /\ pc = "done"

\* C4: the calls of one scan cover strictly descending ranges, the first
\* ending at the anchor, none below max(0, anchor - lookback); the logs are
\* visited newest first.
C4_DescendingRanges ==
    \A t \in AllTids :
        /\ \A k \in CallIdx(t) :
              /\ calls[k].fromBlock <= calls[k].toBlock
              /\ calls[k].fromBlock >= FloorOf(t)
              /\ calls[k].toBlock <= AnchorOf(t)
              /\ (\A m \in CallIdx(t) : m >= k) => calls[k].toBlock = AnchorOf(t)
              /\ \A m \in CallIdx(t) : m > k => calls[m].toBlock < calls[k].fromBlock
        /\ \A v \in VisitIdx(t) :
              /\ evals[v].call \in CallIdx(t)
              /\ calls[evals[v].call].fromBlock <= evals[v].blockNumber
              /\ evals[v].blockNumber <= calls[evals[v].call].toBlock
              /\ \A u \in VisitIdx(t) : u > v => evals[u].blockNumber < evals[v].blockNumber
        /\ \A k \in CallIdx(t) : \A b \in calls[k].fromBlock..calls[k].toBlock :
              (calls[k].ok /\ chain[b] # << >>
                  /\ ~\E v \in VisitIdx(t) : evals[v].blockNumber = b) =>
                  \E v \in VisitIdx(t) :
                      /\ evals[v].blockNumber > b
                      /\ evals[v].tier \in {10, 20}

\* a scan of several chunks whose last chunk was cut at the window's floor,
\* with two logs visited in one chunk
C4_Witness ==
    \E t \in AllTids :
        /\ Scanned(t) /\ pc = "done"
        /\ \E k \in CallIdx(t) :
              /\ k >= 2
              /\ calls[k].fromBlock = FloorOf(t)
              /\ calls[k].toBlock - calls[k].fromBlock + 1 < cfg.LOG_CHUNK_BLOCKS
        /\ \E u, v \in VisitIdx(t) : u < v /\ evals[u].call = evals[v].call

\* the file held, when the run started, an entry for t of another version
Stale(t) ==
    /\ file0.kind # "missing"
    /\ file0.byTid[t].shape # "absent"
    /\ versionOf(file0.byTid[t]) # DECODE_VERSION

\* C10: an entry of another decode version is never a cache hit; its
\* identifier, when the run resolves it, is scanned again, the wins take the
\* tier of that scan, and the written entry carries the current version.
C10_VersionIsolation ==
    \A t \in AllTids :
        Stale(t) =>
            /\ t \notin hits
            /\ (pc = "done" /\ t \in RunTids) =>
                  /\ Scanned(t)
                  /\ CallIdx(t) # {}
                  /\ file.byTid[t].shape = "object"
                  /\ file.byTid[t].decodeVersion = DECODE_VERSION
                  /\ file.byTid[t].tier = scanRes[t].tier
                  /\ \A k \in 1..Len(out.wins) :
                        out.wins[k].tournamentId = t => out.wins[k].tier = scanRes[t].tier

\* the file held tier 20 under another version; the run scanned and found 10
C10_Witness ==
    /\ pc = "done"
    /\ cfg.USE_CACHE
    /\ file0.kind = "current"
    /\ file0.byTid[500] = EntryOld20
    /\ 500 \in RunTids
    /\ scanRes[500].tier = 10
    /\ file.byTid[500].tier = 10
    /\ file.byTid[500].decodeVersion = DECODE_VERSION

(***************************************************************************)
(* Properties of the cache across one run                                  *)
(***************************************************************************)
\* the cache file held an entry for t when the run started
Had0(t) == file0.kind # "missing" /\ file0.byTid[t].shape # "absent"

\* the entry main starts from for t
Loaded0(t) == loadTierCache(file0)[t]

\* the loaded entry of t passes the test of line 441
Usable0(t) ==
    /\ cfg.USE_CACHE
    /\ tierOf(Loaded0(t)) \in {10, 20}
    /\ versionOf(Loaded0(t)) = DECODE_VERSION

\* C11 (as claimed): an existing entry is replaced only when its decodeVersion
\* differs from the current one, or its tier is unknown and USE_CACHE is
\* disabled; otherwise it is left unchanged and no getLogs call is made.
C11_Original ==
    pc = "done" =>
        \A t \in AllTids :
            (/\ Had0(t)
             /\ versionOf(file0.byTid[t]) = DECODE_VERSION
             /\ ~(tierOf(file0.byTid[t]) = Null /\ ~cfg.USE_CACHE)) =>
                /\ file.byTid[t] = file0.byTid[t]
                /\ CallIdx(t) = {}

\* C11 (amended): an existing entry is replaced by a new resolution exactly
\* when its identifier is among the run's wins and USE_CACHE is disabled, or
\* its tier is not 10 or 20, or its decodeVersion is not the current one; in
\* every other case no getLogs call is made for the identifier and the entry
\* is written back as it was loaded.
C11_Amended ==
    /\ \A t \in hits : CallIdx(t) = {} /\ ~Scanned(t)
    /\ pc = "done" =>
          \A t \in AllTids :
              Had0(t) =>
                  IF t \in RunTids /\ ~Usable0(t)
                  THEN /\ Scanned(t)
                       /\ CallIdx(t) # {}
                       /\ file.byTid[t] # file0.byTid[t]
                       /\ file.byTid[t].shape = "object"
                       /\ file.byTid[t].tier = scanRes[t].tier
                       /\ file.byTid[t].decodeVersion = DECODE_VERSION
                       /\ file.byTid[t].resolvedAtUtc = "now"
                  ELSE /\ ~Scanned(t)
                       /\ CallIdx(t) = {}
                       /\ file.byTid[t] = Loaded0(t)

\* with USE_CACHE disabled an entry of the current version holding tier 10 was
\* scanned again and replaced
C11_Witness ==
    /\ pc = "done"
    /\ ~cfg.USE_CACHE
    /\ file0.kind = "current"
    /\ file0.byTid[500] = EntryCurrent10
    /\ 500 \in RunTids
    /\ CallIdx(500) # {}
    /\ file.byTid[500] # EntryCurrent10

\* C12 (as claimed): while a later identifier is being scanned, or the run
\* has stopped during that scan, the cache file holds the resolution of every
\* identifier resolved earlier in the run.
C12_WriteThrough ==
    pc \in {"getLogs", "stopped"} =>
        \A t \in AllTids :
            Scanned(t) =>
                /\ file.kind # "missing"
                /\ file.byTid[t] = cache[t]

\* the entries of a flat file that the migration takes over
Legacy0(t) ==
    /\ file0.kind = "flat"
    /\ \/ file0.byTid[t].shape = "number" /\ file0.byTid[t].tier \in {10, 20}
       \/ file0.byTid[t].shape = "object" /\ file0.byTid[t].decodeVersion = NullStr

Kept0(t) ==
    /\ Had0(t)
    /\ file0.kind = "flat" =>
          \/ file0.byTid[t].shape = "number" /\ file0.byTid[t].tier \in {10, 20}
          \/ file0.byTid[t].shape = "object"

jProcessed == IF jPc = "hints" THEN SubSeq(jHints, 1, jK - 1) ELSE jHints

\* the index pass 1 builds from a list of hint logs
RECURSIVE buildIndex(_, _, _)
buildIndex(script, logs, idx) ==
    IF logs = << >> THEN idx
    ELSE buildIndex(script, Tail(logs), hintStep(script, idx, Head(logs)))

\* the flag word of a hint log is there / is there and is not 1
jHasFlag(h) == Len(h.data) >= 2
jBadFlag(h) == jHasFlag(h) /\ h.data[2] # 1

\* the winner address and the join key a script reads from a hint log
jWinnerOf(h) == IF jScript = "topic0" THEN topicToAddress(h.t2) ELSE addrFromTopic(h.t2)
jKeyOf(h) == IF jScript = "topic0" THEN << h.tx, h.t1 >> ELSE << 0, h.t1 >>

\* the hint logs a script enters in its index
jIndexed(h) ==
    jScript = "topic0" => (h.t1 # 0 /\ topicToAddress(h.t2) # Null /\ jHasFlag(h) /\ ~jBadFlag(h))

\* the distinct winner addresses hinted in a transaction
jHinted(tx) == { addrFromTopic(jHints[i].t2) : i \in { j \in 1..Len(jHints) : jHints[j].tx = tx } }

jPlayers(r) == {r.playerA, r.playerB} \ {Null}

C17_FirstHintKept ==
    \A i \in 1..Len(jProcessed) :
        (/\ jIndexed(jProcessed[i])
         /\ \A j \in 1..(i - 1) :
               ~(jIndexed(jProcessed[j]) /\ jKeyOf(jProcessed[j]) = jKeyOf(jProcessed[i]))) =>
            mapGet(jIdx.byKey, jKeyOf(jProcessed[i])) = jWinnerOf(jProcessed[i])

\* C18 (as claimed): a winner attached by the primary lookup is the winner of
\* a hint log of the match's own transaction that carries the match's
\* identifier.
C18_Original ==
    \A k \in 1..Len(jOut) :
        jOut[k].via = "id" =>
            \E i \in 1..Len(jHints) :
                /\ jHints[i].tx = jOut[k].txHash
                /\ jHints[i].t1 = jOut[k].matchId
                /\ jWinnerOf(jHints[i]) = jOut[k].winner

\* C18 (amended): in extract-matches-from-topic0.js a winner attached by the
\* primary lookup comes from a hint of the same transaction with the same
\* identifier; in the updated script and in debug-profile-logs.js the primary
\* lookup is keyed by the identifier alone, and the hint it takes the winner
\* from carries the same identifier but may belong to any transaction.
C18_Amended ==
    \A k \in 1..Len(jOut) :
        jOut[k].via = "id" =>
            \E i \in 1..Len(jHints) :
                /\ jScript = "topic0" => jHints[i].tx = jOut[k].txHash
                /\ jIndexed(jHints[i])
                /\ jHints[i].t1 = jOut[k].matchId
                /\ jWinnerOf(jHints[i]) = jOut[k].winner

\* topic0 script: a confirmed hint of another transaction names player A for
\* the match's identifier, none of the match's transaction does, and the
\* winner stayed null
C18_Witness ==
    /\ jPc = "done"
    /\ jScript = "topic0"
    /\ \E k \in 1..Len(jOut) :
          /\ jOut[k].winner = Null
          /\ \E i \in 1..Len(jHints) :
                /\ jHints[i].tx # jOut[k].txHash
                /\ jHints[i].t1 = jOut[k].matchId
                /\ jIndexed(jHints[i])
                /\ jWinnerOf(jHints[i]) = jOut[k].playerA
          /\ \A i \in 1..Len(jHints) : jHints[i].tx # jOut[k].txHash

\* the hint logs without those whose flag word is present and not 1
jConfirmedOnly(logs) == SelectSeq(logs, LAMBDA h : ~jBadFlag(h))

\* the hint logs with the flag word 1 given to those that have none
jFlagFilled(logs) ==
    [i \in 1..Len(logs) |->
        IF jHasFlag(logs[i]) THEN logs[i] ELSE [logs[i] EXCEPT !.data = << 5, 1 >>]]

\* the records pass 2 makes of the match logs gone through, from an index
jRecordsFrom(idx) == [k \in 1..Len(jOut) |-> matchStep(jScript, idx, jMatches[k])]

\* C19 (as claimed): hint logs whose flag word is present and differs from 1
\* are ignored: the index and the records are those of a run without them.
C19_Original ==
    /\ jIdx = buildIndex(jScript, jConfirmedOnly(jProcessed), NoIdx)
    /\ jOut = jRecordsFrom(buildIndex(jScript, jConfirmedOnly(jHints), NoIdx))

\* C19 (amended): extract-matches-from-topic0.js ignores a hint log whose
\* flag word is present and differs from 1: its index and records are those
\* of a run without such logs; the updated script and debug-profile-logs.js
\* do not read the flag: each of their hint logs is indexed under its
\* identifier and counted among the winners of its transaction.
C19_Amended ==
    /\ jScript = "topic0" =>
          /\ jIdx = buildIndex(jScript, jConfirmedOnly(jProcessed), NoIdx)
          /\ jOut = jRecordsFrom(buildIndex(jScript, jConfirmedOnly(jHints), NoIdx))
    /\ jScript \in {"updated", "debug"} =>
          \A i \in 1..Len(jProcessed) :
              /\ mapGet(jIdx.byKey, << 0, jProcessed[i].t1 >>) # Null
              /\ << jProcessed[i].tx, addrFromTopic(jProcessed[i].t2) >> \in jIdx.byTx

\* topic0 script: the only hint of the match's key names player A with flag
\* 2, and the winner stayed null
C19_Witness ==
    /\ jPc = "done"
    /\ jScript = "topic0"
    /\ \E k \in 1..Len(jOut) :
          /\ jOut[k].winner = Null
          /\ \E i \in 1..Len(jHints) :
                /\ jKeyOf(jHints[i]) = << jOut[k].txHash, jOut[k].matchId >>
                /\ topicToAddress(jHints[i].t2) = jOut[k].playerA
                /\ jBadFlag(jHints[i])
          /\ \A i \in 1..Len(jHints) : jBadFlag(jHints[i])

\* C20 (as claimed): a hint log without a flag word is indexed in the same
\* way as one whose flag is 1: the index and the records are those of a run
\* in which every such log carries the flag 1.
C20_NoFlagIndexed ==
    /\ jIdx = buildIndex(jScript, jFlagFilled(jProcessed), NoIdx)
    /\ jOut = jRecordsFrom(buildIndex(jScript, jFlagFilled(jHints), NoIdx))

(***************************************************************************)
(* Properties of the older tier scanners                                   *)
(***************************************************************************)
\* C21: in the older scanners a 'no tier found' outcome, and the
\* tier-unknown cache entry written for it, occurs only when every chunk of
\* the window was retrieved successfully: no failed GetLogs call was skipped.
C21_NoSilentSkip ==
    (oPc \in {"write", "done"} /\ oFound.kind # "found"
        /\ (oPc = "done" => oEntry = MissEntry))
    => \A k \in 1..Len(oCalls) : oCalls[k].ok

\* C22: a tier is assigned only from a decoded bracket whose max is exactly
\* 10 or 20 and whose max - min is at most 4; no other max produces tier 10
\* or 20 through a default or threshold rule.
C22_OnlyTightBracket ==
    (oScript = "flexpair" /\ oEntry.kind = "found" /\ oEntry.tier \in {10, 20})
    => /\ oEntry.maxLevel \in {10, 20}
       /\ oEntry.maxLevel - oEntry.minLevel <= 4

(***************************************************************************)
(* Properties of a completed post22m run                                   *)
(***************************************************************************)
\* the wins main keeps: the `wins` of lines 417-426
Selected == SelectWins(rawWins, cfg.START_BLOCK)

SoloTier(t) ==
    IF Usable0(t) THEN tierOf(Loaded0(t))
    ELSE IF Failed(t) THEN Null
    ELSE LET good == { b \in FloorOf(t)..AnchorOf(t) : LogTier(t, b) \in {10, 20} }
         IN IF good = {} THEN Null
            ELSE LogTier(t, CHOOSE b \in good : \A c \in good : c <= b)

C25_StopsAtShortPage ==
    /\ \A k \in 1..Len(pgReqs) :
          /\ pgReqs[k].skip = (k - 1) * pgCfg.first
          /\ pgReqs[k].first = pgCfg.first
          /\ k < Len(pgReqs) => pgReqs[k].length = pgCfg.first
    /\ pgPc = "returned" =>
          /\ pgReqs # << >>
          /\ pgReqs[Len(pgReqs)].length < pgCfg.first
          /\ pgAll = [k \in 1..pgTotal |-> k]
    /\ pgPc = "fetch" =>
          \A k \in 1..Len(pgReqs) : pgReqs[k].length = pgCfg.first

(***************************************************************************)
(* Properties of the word extraction                                       *)
(***************************************************************************)
\* the hex characters of the data field
wHex == IF wData = << >> THEN << >> ELSE SubSeq(wData, 3, Len(wData))

\* the topics the function is given: splitWords takes the data only
wGiven == IF wFn = "extractWordsFromLog" THEN wTopics ELSE << >>

\* C26: word extraction yields the topics in order, lowercased, followed by
\* the data split into consecutive 32-byte words; a trailing partial chunk
\* is dropped, so every word produced is exactly 32 bytes long.
C26_WholeWords ==
    wPc = "done" =>
        /\ Len(wOut) = Len(wGiven) + (Len(wHex) \div WORD_CHARS)
        /\ \A k \in 1..Len(wGiven) : wOut[k] = toLowerCase(wGiven[k])
        /\ \A k \in 1..(Len(wHex) \div WORD_CHARS) :
              toLowerCase(wOut[Len(wGiven) + k])
                  = toLowerCase(<< "0", "x" >>
                        \o SubSeq(wHex, (k - 1) * WORD_CHARS + 1, k * WORD_CHARS))
        /\ \A k \in 1..Len(wOut) : Len(wOut[k]) = 2 + WORD_CHARS

(***************************************************************************)
(* Properties of mapWithConcurrency                                        *)
(***************************************************************************)
\* C27: mapWithConcurrency hands every item to the worker exactly once and
\* never has more than `concurrency` worker invocations in flight, whatever
\* the interleaving of the workers' suspension points.
C27_BoundedOnce ==
    /\ \A i \in 1..mcN : mcHanded[i] <= 1
    /\ \A i \in 1..mcN : mcHanded[i] = 1 <=> i <= mcIdx
    /\ Cardinality({ f[1] : f \in mcFlight }) = Cardinality(mcFlight)
    /\ Cardinality(mcFlight) <= mcConc
    /\ mcPc = "returned" =>
          /\ \A i \in 1..mcN : mcHanded[i] = 1
          /\ mcResults = 1..mcN
          /\ mcFlight = {}

\* as many workers in flight as allowed, at different suspension points, while
\* items still wait
C27_Witness ==
    /\ mcPc = "running"
    /\ mcConc = 2
    /\ Cardinality(mcFlight) = 2
    /\ \E f, g \in mcFlight : f[2] # g[2]
    /\ mcResults # {}
    /\ \E i \in 1..mcN : mcHanded[i] = 0

(***************************************************************************)
(* Coverage of the lookback window                                         *)
(***************************************************************************)
\* block b lies in the range of call k
InCall(k, b) == calls[k].fromBlock <= b /\ b <= calls[k].toBlock

\* C28: when findTierByLookback ends with no match and no error, the ranges
\* of its getLogs calls are pairwise disjoint and their union is exactly
\* [max(0, anchor - lookback), anchor].
C28_ExactCover ==
    \A t \in AllTids :
        (Scanned(t) /\ scanRes[t].tier = Null /\ scanRes[t].error = NullStr) =>
            /\ CallIdx(t) # {}
            /\ \A k \in CallIdx(t) : calls[k].ok /\ calls[k].fromBlock <= calls[k].toBlock
            /\ \A k, m \in CallIdx(t) :
                  k # m => \A b \in -MaxBlock..(MaxBlock + 1) : ~(InCall(k, b) /\ InCall(m, b))
            /\ \A b \in -MaxBlock..(MaxBlock + 1) :
                  (\E k \in CallIdx(t) : InCall(k, b))
                      <=> (Max(0, AnchorOf(t) - cfg.LOOKBACK_BLOCKS) <= b /\ b <= AnchorOf(t))

\* a window of three blocks searched in two chunks, the second cut at the
\* start of the window, with a log that yields no tier
C28_Witness ==
    \E t \in AllTids :
        /\ Scanned(t) /\ scanRes[t].tier = Null /\ scanRes[t].error = NullStr
        /\ cfg.LOG_CHUNK_BLOCKS = 2
        /\ AnchorOf(t) - FloorOf(t) = 2
        /\ FloorOf(t) > 0
        /\ Cardinality(CallIdx(t)) = 2
        /\ \E v \in VisitIdx(t) : evals[v].evaluated

(***************************************************************************)
(* Properties of the update-all pipeline                                   *)
(***************************************************************************)
\* the children of step s that exited, by their place in the log
upRuns(s) == { k \in 1..Len(upLog) : upLog[k].step = s }

\* C29: runWithRetry runs the step at most `attempts` times, stops at the
\* first attempt that exits with status 0, and ends the whole pipeline with a
\* failure status after the last failed attempt; each later step starts only
\* after every earlier step has exited with status 0.
C29_RetryThenFail ==
    /\ Cardinality(upRuns(1)) <= upCfg.attempts
    /\ \A k \in upRuns(1) : upLog[k].attempt = k /\ k <= upCfg.attempts
    /\ \A k \in 1..Len(upLog) :
          /\ upLog[k].status = 0 => \A m \in upRuns(upLog[k].step) : m <= k
          /\ \A s \in 1..(upLog[k].step - 1) :
                \E m \in upRuns(s) : m < k /\ upLog[m].status = 0
    /\ (upLog # << >> /\ upLog[Len(upLog)].step = 1 /\ upLog[Len(upLog)].status # 0
           /\ upLog[Len(upLog)].attempt = upCfg.attempts)
          => upPc = "exited" /\ upExit # 0 /\ upExit # Null
    /\ upPc = "exited" =>
          /\ upLog # << >>
          /\ upLog[Len(upLog)].status # 0
          /\ upExit = exitStatus(upLog[Len(upLog)].status)
          /\ upExit # 0
    /\ upPc \in {"copy", "complete"} =>
          \A s \in 1..Len(PipeSteps) : \E m \in upRuns(s) : upLog[m].status = 0

\* the first step failed twice and then succeeded; a later step failed
C29_Witness ==
    /\ upCfg.attempts = 3
    /\ Cardinality(upRuns(1)) = 3
    /\ upLog[3].status = 0
    /\ upLog[2].status = Null
    /\ upPc = "exited"
    /\ upLog[Len(upLog)].step = 3
    /\ upExit = 2

(***************************************************************************)
(* Properties of the profile backfill                                      *)
(***************************************************************************)
\* the requests that were answered
bfAnswered == { k \in 1..Len(bfReqs) : bfReqs[k].ok }

\* C30: whenever the cache is marked finished, the getLogs ranges issued since
\* the backward scan started, across interrupted and resumed runs, cover every
\* block from 0 up to the block at which the scan started, and no block was
\* requested twice.
C30_FinishedMeansCovered ==
    bfCache.finished =>
        /\ bfFirst # Null
        /\ \A b \in 0..bfFirst :
              \E k \in bfAnswered : bfReqs[k].fromBlock <= b /\ b <= bfReqs[k].toBlock
        /\ \A k, m \in bfAnswered :
              k < m => bfReqs[m].toBlock < bfReqs[k].fromBlock

====
